---- MODULE Spec2Model ----
(***************************************************************************)
(* Workflow graph execution engine of ai-blocks: the graph model           *)
(* (engine/graph.ts) and the graph runner (engine/runner.ts).              *)
(*                                                                         *)
(* SpecGraph : topologicalSort and validateGraph applied to every graph of *)
(*             a bounded universe (pure functions of the graph).          *)
(* Spec      : one GraphRunner instance: run(), stop(), the blocks'        *)
(*             completions and the timeout timer.                          *)
(* SpecLive  : Spec with the fairness the JavaScript event loop gives.     *)
(* SpecEval  : evaluate() (engine/evaluator.ts) on bounded traces, levels. *)
(* SpecStore : the graph store (store/graphStore.ts): edits, undo, redo.   *)
(***************************************************************************)
EXTENDS Integers, Sequences, FiniteSets, TLC

VARIABLES
    graph,        \* SpecGraph: the graph handed to the graph functions
    sorted,       \* SpecGraph: outcome of topologicalSort(graph)
    validation,   \* SpecGraph: outcome of validateGraph(graph)
    revalidation, \* SpecGraph: outcome of a second validateGraph(graph)
    evalInput,    \* SpecEval: the trace and the level handed to evaluate()
    evalResult,   \* SpecEval: the EvaluationResult evaluate() returned
    isRunning,    \* GraphRunner.isRunning
    shouldStop,   \* GraphRunner.shouldStop
    pc,           \* "idle", or "awaiting" while run() is suspended at its await
    run,          \* the locals of the accepted run() activation
    promise,      \* the promise returned by the latest accepted run()
    lastCall,     \* what the latest run() call did: "none", "accepted", "rejected"
    calls,        \* number of run() calls made so far
    invoked,      \* block invocations of the current run: [nodeId, input]
    events,       \* callback invocations of the current run
    late,         \* blocks whose timer has fired and that have not completed yet
    store,        \* SpecStore: the state of useGraphStore
    uuids,        \* SpecStore: number of ids uuid() has generated
    journal       \* SpecStore: the store actions called so far

graphVars  == <<graph, sorted, validation, revalidation>>
evalVars   == <<evalInput, evalResult>>
storeVars  == <<store, uuids, journal>>
runnerVars == <<isRunning, shouldStop, pc, run, promise, lastCall, calls,
                invoked, events, late>>
vars       == <<graph, sorted, validation, revalidation, evalInput,
                evalResult, isRunning, shouldStop, pc, run, promise, lastCall,
                calls, invoked, events, late, store, uuids, journal>>

---------------------------------------------------------------------------
(* Bounds of the graph universe.                                           *)

MaxEdges == 3

Ids == {"a", "b", "c"}

\* GraphEdge.targetHandle; NoHandle is an unset (or empty, equally falsy) handle.
NoHandle == ""

Range(s) == {s[i] : i \in 1..Len(s)}

SeqsUpTo(S, n) == UNION {[1..k -> S] : k \in 0..n}

\* Node id lists without repetition (Node.id is unique).
IdLists(S) == {s \in SeqsUpTo(S, Cardinality(S)) :
                  \A i, j \in 1..Len(s) : i # j => s[i] # s[j]}

---------------------------------------------------------------------------
(* engine/graph.ts                                                         *)

\* The type dispatched on for a node id of the universe.
TypeOf(id) ==
    CASE id = "a" -> "userInput"
      [] id = "b" -> "llmParse"
      [] id = "c" -> "contextMerge"
      [] OTHER    -> "dataFormatter"

GraphNode(id) == [id |-> id, type |-> TypeOf(id)]

GraphEdge(s, t, h) == [source |-> s, target |-> t, targetHandle |-> h]

NodeIds(g) == {g.nodes[i].id : i \in 1..Len(g.nodes)}

MapSeq(s, F(_)) == [i \in 1..Len(s) |-> F(s[i])]

EdgeSource(e) == e.source

EdgeTarget(e) == e.target

\* dependencies.get(nodeId) || [] : the sources of the edges into nodeId, in
\* edge order (an id that is no node gets its list on first use).
DepsOfReversed(g, nodeId) ==
    MapSeq(SelectSeq(g.edges, LAMBDA e : e.source = nodeId), EdgeTarget)

DepsOf(g, nodeId) ==
    MapSeq(SelectSeq(g.edges, LAMBDA e : e.target = nodeId), EdgeSource)

NoThrow == [threw |-> FALSE, node |-> ""]

RECURSIVE visit(_, _, _)
RECURSIVE visitDeps(_, _, _)

\* visit(nodeId); st = [visited, visiting, result, thrown].  A throw unwinds
\* the whole recursion: nothing after it runs.
visit(g, st, nodeId) ==
    IF st.thrown.threw THEN st
    ELSE IF nodeId \in st.visiting
         THEN [st EXCEPT !.thrown = [threw |-> TRUE, node |-> nodeId]]
    ELSE IF nodeId \in st.visited THEN st
    ELSE LET s1 == [st EXCEPT !.visiting = @ \cup {nodeId}]
             s2 == visitDeps(g, s1, DepsOf(g, nodeId))
         IN  IF s2.thrown.threw THEN s2
             ELSE [s2 EXCEPT !.visiting = @ \ {nodeId},
                             !.visited  = @ \cup {nodeId},
                             !.result   = Append(@, nodeId)]

\* deps.forEach(depId => visit(depId))
visitDeps(g, st, deps) ==
    IF deps = <<>> \/ st.thrown.threw THEN st
    ELSE visitDeps(g, visit(g, st, Head(deps)), Tail(deps))

RECURSIVE visitNodes(_, _, _)

\* nodes.forEach(node => { if (!visited.has(node.id)) visit(node.id) })
visitNodes(g, st, nodes) ==
    IF nodes = <<>> \/ st.thrown.threw THEN st
    ELSE visitNodes(g,
                    IF Head(nodes).id \in st.visited THEN st
                    ELSE visit(g, st, Head(nodes).id),
                    Tail(nodes))

\* topologicalSort(graph): the order, or the cycle error and the node it names.
topologicalSort(g) ==
    LET st == visitNodes(g, [visited |-> {}, visiting |-> {}, result |-> <<>>,
                             thrown |-> NoThrow], g.nodes)
    IN  [threw |-> st.thrown.threw,
         node  |-> st.thrown.node,
         order |-> IF st.thrown.threw THEN <<>> ELSE st.result]

\* getInputNodes(graph, nodeId)
getInputNodes(g, nodeId) ==
    MapSeq(SelectSeq(g.edges, LAMBDA e : e.target = nodeId), EdgeSource)

CycleError(nodeId) == [kind |-> "cycle", id |-> nodeId]

SourceError(e) == [kind |-> "source", id |-> e.source]

TargetError(e) == [kind |-> "target", id |-> e.target]

RECURSIVE EdgeErrors(_, _)
\* graph.edges.forEach: one message per missing endpoint, source first.
EdgeErrors(g, edges) ==
    IF edges = <<>> THEN <<>>
    ELSE LET e == Head(edges)
         IN  (IF e.source \notin NodeIds(g) THEN <<SourceError(e)>> ELSE <<>>)
             \o (IF e.target \notin NodeIds(g) THEN <<TargetError(e)>> ELSE <<>>)
             \o EdgeErrors(g, Tail(edges))

RECURSIVE EdgeErrorsOnePerEdge(_, _)
EdgeErrorsOnePerEdge(g, edges) ==
    IF edges = <<>> THEN <<>>
    ELSE LET e == Head(edges)
         IN  (IF e.source \notin NodeIds(g) THEN <<SourceError(e)>>
              ELSE IF e.target \notin NodeIds(g) THEN <<TargetError(e)>>
              ELSE <<>>)
             \o EdgeErrorsOnePerEdge(g, Tail(edges))

validateGraphOnePerEdge(g) ==
    LET ts     == topologicalSort(g)
        errors == (IF ts.threw THEN <<CycleError(ts.node)>> ELSE <<>>)
                  \o EdgeErrorsOnePerEdge(g, g.edges)
    IN  [valid |-> errors = <<>>, errors |-> errors]

validateGraphNoCycleCheck(g) ==
    LET errors == EdgeErrors(g, g.edges)
    IN  [valid |-> errors = <<>>, errors |-> errors]

validateGraphAlwaysValid(g) == [valid |-> TRUE, errors |-> <<>>]

\* validateGraph(graph)
validateGraph(g) ==
    LET ts     == topologicalSort(g)
        errors == (IF ts.threw THEN <<CycleError(ts.node)>> ELSE <<>>)
                  \o EdgeErrors(g, g.edges)
    IN  [valid |-> errors = <<>>, errors |-> errors]

---------------------------------------------------------------------------
(* Graph-theoretic vocabulary of the claims, defined on the edge list      *)
(* alone and independently of the sort.                                    *)

EdgeIds(g) == {g.edges[i].source : i \in 1..Len(g.edges)}
              \cup {g.edges[i].target : i \in 1..Len(g.edges)}

HasEdge(g, u, v) == \E i \in 1..Len(g.edges) :
                        g.edges[i].source = u /\ g.edges[i].target = v

RECURSIVE ReachWithin(_, _, _, _)
\* v is reached from u by a path of at least one and at most n edges.
ReachWithin(g, u, v, n) ==
    IF n = 0 THEN FALSE
    ELSE HasEdge(g, u, v)
         \/ \E w \in EdgeIds(g) : HasEdge(g, u, w) /\ ReachWithin(g, w, v, n - 1)

Reaches(g, u, v) == ReachWithin(g, u, v, Len(g.edges))

OnCycle(g, u) == Reaches(g, u, u)

HasCycle(g) == \E u \in EdgeIds(g) : OnCycle(g, u)

IsDangling(g, e) == e.source \notin NodeIds(g) \/ e.target \notin NodeIds(g)

NoDangling(g) == \A i \in 1..Len(g.edges) : ~IsDangling(g, g.edges[i])

Position(s, x) == CHOOSE i \in 1..Len(s) : s[i] = x

RECURSIVE SumSeq(_)
SumSeq(s) == IF s = <<>> THEN 0 ELSE Head(s) + SumSeq(Tail(s))

Count(s, P(_)) == Cardinality({i \in 1..Len(s) : P(s[i])})

---------------------------------------------------------------------------
(* store/graphStore.ts: useGraphStore                                      *)

\* The k-th id uuid() generates: distinct from every other id.
uuid(k) == "u" \o ToString(k)

\* { nodes, edges } of the store
GraphOf(s) == [nodes |-> s.nodes, edges |-> s.edges]

\* { ...object, ...updates }
Spread(object, updates) ==
    [k \in (DOMAIN object) \cup (DOMAIN updates) |->
        IF k \in DOMAIN updates THEN updates[k] ELSE object[k]]

\* The graph the store starts with: one userInput node, no edge.
initialGraph ==
    [nodes |-> <<[id |-> uuid(1), type |-> "userInput"]>>, edges |-> <<>>]

createHistory(g) == [past |-> <<>>, present |-> g, future |-> <<>>]

\* The state useGraphStore is created with.
InitialStore ==
    [nodes |-> initialGraph.nodes, edges |-> initialGraph.edges,
     history |-> createHistory(initialGraph),
     canUndo |-> FALSE, canRedo |-> FALSE,
     isValid |-> TRUE, validationErrors |-> <<>>]

validateCurrentGraphSkipped(s) == s

\* validateCurrentGraph()
validateCurrentGraph(s) ==
    LET validated == validateGraph(GraphOf(s))
    IN  [s EXCEPT !.isValid = validated.valid,
                  !.validationErrors = validated.errors]

pushToHistoryKeepsFuture(s) ==
    LET newHistory == [past |-> Append(s.history.past, s.history.present),
                       present |-> GraphOf(s),
                       future |-> s.history.future]
    IN  [s EXCEPT !.history = newHistory,
                  !.canUndo = Len(newHistory.past) > 0,
                  !.canRedo = FALSE]

\* pushToHistory(): the present of the history moves to the past and the
\* graph the store holds at the call becomes the present.
pushToHistory(s) ==
    LET newHistory == [past |-> Append(s.history.past, s.history.present),
                       present |-> GraphOf(s),
                       future |-> <<>>]
    IN  [s EXCEPT !.history = newHistory,
                  !.canUndo = Len(newHistory.past) > 0,
                  !.canRedo = FALSE]

\* setGraph(graph)
setGraph(s, g) ==
    LET validated == validateGraph(g)
    IN  [s EXCEPT !.nodes = g.nodes, !.edges = g.edges,
                  !.isValid = validated.valid,
                  !.validationErrors = validated.errors]

\* addNode(nodeData), id being what uuid() returns
addNode(s, nodeData, id) ==
    LET newNode  == Spread(nodeData, [id |-> id])
        newNodes == Append(s.nodes, newNode)
    IN  validateCurrentGraph([pushToHistory(s) EXCEPT !.nodes = newNodes])

\* updateNode(id, updates)
updateNode(s, id, updates) ==
    LET newNodes == MapSeq(s.nodes, LAMBDA node :
                        IF node.id = id THEN Spread(node, updates) ELSE node)
    IN  validateCurrentGraph([pushToHistory(s) EXCEPT !.nodes = newNodes])

deleteNodeKeepsEdges(s, id) ==
    LET newNodes == SelectSeq(s.nodes, LAMBDA node : node.id # id)
    IN  validateCurrentGraph([pushToHistory(s) EXCEPT !.nodes = newNodes])

\* deleteNode(id)
deleteNode(s, id) ==
    LET newNodes == SelectSeq(s.nodes, LAMBDA node : node.id # id)
        newEdges == SelectSeq(s.edges, LAMBDA edge :
                        edge.source # id /\ edge.target # id)
    IN  validateCurrentGraph([pushToHistory(s) EXCEPT !.nodes = newNodes,
                                                      !.edges = newEdges])

\* addEdge(edgeData), id being what uuid() returns
addEdge(s, edgeData, id) ==
    LET newEdge  == Spread(edgeData, [id |-> id])
        newEdges == Append(s.edges, newEdge)
    IN  validateCurrentGraph([pushToHistory(s) EXCEPT !.edges = newEdges])

\* updateEdge(id, updates)
updateEdge(s, id, updates) ==
    LET newEdges == MapSeq(s.edges, LAMBDA edge :
                        IF edge.id = id THEN Spread(edge, updates) ELSE edge)
    IN  validateCurrentGraph([pushToHistory(s) EXCEPT !.edges = newEdges])

\* deleteEdge(id)
deleteEdge(s, id) ==
    LET newEdges == SelectSeq(s.edges, LAMBDA edge : edge.id # id)
    IN  validateCurrentGraph([pushToHistory(s) EXCEPT !.edges = newEdges])

\* undo()
undo(s) ==
    IF Len(s.history.past) = 0 THEN s
    ELSE LET newPresent == s.history.past[Len(s.history.past)]
             newPast    == SubSeq(s.history.past, 1, Len(s.history.past) - 1)
             newHistory == [past |-> newPast, present |-> newPresent,
                            future |-> <<s.history.present>>
                                       \o s.history.future]
         IN  validateCurrentGraph(
                 [s EXCEPT !.nodes = newPresent.nodes,
                           !.edges = newPresent.edges,
                           !.history = newHistory,
                           !.canUndo = Len(newPast) > 0,
                           !.canRedo = TRUE])

\* redo()
redo(s) ==
    IF Len(s.history.future) = 0 THEN s
    ELSE LET newPresent == s.history.future[1]
             newFuture  == Tail(s.history.future)
             newHistory == [past |-> Append(s.history.past,
                                            s.history.present),
                            present |-> newPresent, future |-> newFuture]
         IN  validateCurrentGraph(
                 [s EXCEPT !.nodes = newPresent.nodes,
                           !.edges = newPresent.edges,
                           !.history = newHistory,
                           !.canUndo = TRUE,
                           !.canRedo = Len(newFuture) > 0])

\* importGraph(graph)
importGraph(s, g) == setGraph(pushToHistory(s), g)

\* clearGraph()
clearGraph(s) ==
    validateCurrentGraph([pushToHistory(s) EXCEPT !.nodes = <<>>,
                                                  !.edges = <<>>])

\* No store action has been called.
NoJournal ==
    [steps |-> 0, last |-> [name |-> "none", id |-> ""], prev |-> "none",
     before |-> <<>>, onlyEdits |-> TRUE]

StoreInit ==
    /\ store = InitialStore
    /\ uuids = 1
    /\ journal = NoJournal

---------------------------------------------------------------------------
(* Values passed between blocks.                                           *)

Null == [t |-> "null"]

Undefined == [t |-> "undefined"]

NoError == [kind |-> "undefined"]

EmptyGraph == [nodes |-> <<>>, edges |-> <<>>]

\* The locals of run() before any run() has been accepted.
NoRun ==
    [graph |-> EmptyGraph, continueOnError |-> FALSE, callbacks |-> "quiet",
     timeout |-> [given |-> FALSE, ms |-> 0],
     executionOrder |-> <<>>, idx |-> 0, nodeInput |-> Null,
     results |-> <<>>, totalTokens |-> 0, totalApiCalls |-> 0,
     success |-> TRUE, error |-> NoError, nodeOutputs |-> <<>>,
     completedNodes |-> 0]

NoPromise == [state |-> "none"]

\* Nothing has been handed to evaluate().
NoEvalInput == [trace |-> [results |-> <<>>], level |-> [tests |-> <<>>]]

NotEvaluated == [called |-> FALSE]

EvalInit ==
    /\ evalInput = NoEvalInput
    /\ evalResult = NotEvaluated

\* new GraphRunner(): isRunning = false, shouldStop = false.
RunnerInit ==
    /\ isRunning = FALSE
    /\ shouldStop = FALSE
    /\ pc = "idle"
    /\ run = NoRun
    /\ promise = NoPromise
    /\ lastCall = "none"
    /\ calls = 0
    /\ invoked = <<>>
    /\ events = <<>>
    /\ late = {}

---------------------------------------------------------------------------
(* engine/runner.ts: GraphRunner                                           *)

MaxCalls == 2

MaxLate == 1

\* The block types initializeBlocks() registers; dataFormatter is not one.
blockRegistry ==
    {"userInput", "contextVariable", "contextMerge", "llmParse",
     "llmSuggestTime", "googleCalendarGet", "googleCalendarSchedule",
     "userOutput"}

\* Graphs handed to run().  On the nodes a, b, c: every list of at most two
\* edges into "c" (from two sources or twice from the same source, with the
\* handles "a", "b" or none), a chain, an order that differs from the node
\* array, a two-node cycle and a self-loop.  On shorter node lists: no
\* edges, or a dangling edge.  Node "d" has the unregistered type.
FanInEdges ==
    {GraphEdge("a", "c", "a"), GraphEdge("b", "c", "b"),
     GraphEdge("a", "c", "b"), GraphEdge("b", "c", NoHandle)}

FanInEdgeLists ==
    {<<>>} \cup {<<e>> : e \in FanInEdges}
           \cup {<<e, f>> : e \in FanInEdges, f \in FanInEdges}

OtherEdgeLists ==
    {<<GraphEdge("a", "b", NoHandle), GraphEdge("b", "c", NoHandle)>>,
     <<GraphEdge("c", "a", NoHandle)>>,
     <<GraphEdge("a", "c", "a"), GraphEdge("c", "a", NoHandle)>>,
     <<GraphEdge("b", "b", NoHandle)>>}

\* The graph A(userInput) --> B(llmParse).
InputToParse ==
    [nodes |-> MapSeq(<<"a", "b">>, GraphNode),
     edges |-> <<GraphEdge("a", "b", NoHandle)>>]

RunGraphs ==
    {[nodes |-> MapSeq(<<"a", "b", "c">>, GraphNode), edges |-> es] :
        es \in FanInEdgeLists \cup OtherEdgeLists}
    \cup {InputToParse}
    \cup {[nodes |-> MapSeq(ids, GraphNode), edges |-> es] :
            ids \in {<<>>, <<"a">>, <<"a", "b">>, <<"a", "d", "b">>},
            es \in {<<>>, <<GraphEdge("a", "c", "a")>>}}

\* options.timeout: not given, 0, or 2 (milliseconds).
TimeoutNotGiven == [given |-> FALSE, ms |-> 0]

Timeouts == {TimeoutNotGiven, [given |-> TRUE, ms |-> 0],
             [given |-> TRUE, ms |-> 2]}

\* RunnerOptions: continueOnError, what the two callbacks do when called, and
\* timeout (varied for the callbacks that do not throw).
RunOptions ==
    {o \in [continueOnError : BOOLEAN,
            callbacks : {"quiet", "progressThrows", "resultThrows"},
            timeout : Timeouts] :
        o.callbacks # "quiet" => o.timeout = TimeoutNotGiven}

DefaultTimeout == 30000

TimeoutMsAsGiven(timeout) ==
    IF timeout.given THEN timeout.ms ELSE DefaultTimeout

\* options.timeout || 30000
TimeoutMs(timeout) ==
    IF timeout.given /\ timeout.ms # 0 THEN timeout.ms ELSE DefaultTimeout

\* How long an invoked block takes to settle, in milliseconds.
Durations == {1, 3}

\* Error messages.
ValidationFailed(errors) == [kind |-> "validation", errors |-> errors]

StoppedByUser == [kind |-> "stopped"]

NodeNotFound(nodeId) == [kind |-> "nodeNotFound", node |-> nodeId]

UnknownBlockType(type) == [kind |-> "unknownType", type |-> type]

BlockFailedIn(nodeId, cause) == [kind |-> "blockFailedIn", node |-> nodeId, cause |-> cause]

FailedAtNode(nodeId, cause) == [kind |-> "failedAtNode", node |-> nodeId, cause |-> cause]

TimedOut == [kind |-> "timeout"]

BlockThrew == [kind |-> "blockThrew"]

AppError == [kind |-> "appError"]

CallbackThrew(cb) == [kind |-> "callbackThrew", cb |-> cb]

\* nodeOutputs.get(id)
GetOutput(nodeOutputs, id) ==
    IF id \in DOMAIN nodeOutputs THEN nodeOutputs[id] ELSE Undefined

\* nodeOutputs.set(id, v)
SetOutput(nodeOutputs, id, v) ==
    [k \in (DOMAIN nodeOutputs) \cup {id} |->
        IF k = id THEN v ELSE nodeOutputs[k]]

\* `input${index + 1}` for the 0-based index of forEach; i is 1-based here.
PositionalKey(i) == <<"input1", "input2", "input3", "input4">>[i]

EmptyObject == [k \in {} |-> Null]

\* graph.edges.find(e => e.source === inputNodeId && e.target === nodeId)
FindEdge(g, inputNodeId, nodeId) ==
    LET hits == SelectSeq(g.edges,
                          LAMBDA e : e.source = inputNodeId /\ e.target = nodeId)
    IN  Head(hits)

HandleId(g, inputNodes, nodeId, i) ==
    LET inputEdge == FindEdge(g, inputNodes[i], nodeId)
    IN  IF inputEdge.targetHandle # NoHandle THEN inputEdge.targetHandle
        ELSE PositionalKey(i)

RECURSIVE CombineInputs(_, _, _, _, _, _)
\* inputNodes.forEach((inputNodeId, index) => nodeInput[handleId] = ...)
CombineInputs(g, inputNodes, nodeId, nodeOutputs, i, obj) ==
    IF i > Len(inputNodes) THEN obj
    ELSE LET handleId == HandleId(g, inputNodes, nodeId, i)
             value    == GetOutput(nodeOutputs, inputNodes[i])
         IN  CombineInputs(g, inputNodes, nodeId, nodeOutputs, i + 1,
                 [k \in (DOMAIN obj) \cup {handleId} |->
                     IF k = handleId THEN value ELSE obj[k]])

PrepareInputNoNull(g, nodeId, nodeOutputs) ==
    LET inputNodes == getInputNodes(g, nodeId)
    IN  IF Len(inputNodes) = 1 THEN GetOutput(nodeOutputs, inputNodes[1])
        ELSE [t |-> "object",
              fields |-> CombineInputs(g, inputNodes, nodeId, nodeOutputs, 1,
                                       EmptyObject)]

PrepareInputAlwaysCombined(g, nodeId, nodeOutputs) ==
    LET inputNodes == getInputNodes(g, nodeId)
    IN  IF Len(inputNodes) = 0 THEN Null
        ELSE [t |-> "object",
              fields |-> CombineInputs(g, inputNodes, nodeId, nodeOutputs, 1,
                                       EmptyObject)]

\* "Prepare input from connected nodes"
PrepareInput(g, nodeId, nodeOutputs) ==
    LET inputNodes == getInputNodes(g, nodeId)
    IN  IF Len(inputNodes) = 0 THEN Null
        ELSE IF Len(inputNodes) = 1 THEN GetOutput(nodeOutputs, inputNodes[1])
        ELSE [t |-> "object",
              fields |-> CombineInputs(g, inputNodes, nodeId, nodeOutputs, 1,
                                       EmptyObject)]

TraceOfWithoutResults(r) ==
    [results |-> <<>>, totalTokens |-> r.totalTokens,
     totalApiCalls |-> r.totalApiCalls, success |-> r.success,
     error |-> r.error]

\* The ExecutionTrace assembled from the locals (durations are not modelled).
TraceOf(r) ==
    [results |-> r.results, totalTokens |-> r.totalTokens,
     totalApiCalls |-> r.totalApiCalls, success |-> r.success,
     error |-> r.error]

Pending == [state |-> "pending"]

Resolved(trace) == [state |-> "resolved", trace |-> trace]

ProgressEvent(nodeId, completed, total) ==
    [cb |-> "onProgress", nodeId |-> nodeId, completed |-> completed,
     total |-> total]

ResultEvent(result) == [cb |-> "onResult", result |-> result]

\* The node the run is at.
CurrentNode(r) == r.executionOrder[r.idx]

ErrorResultFor(r, nodeId, errorMessage) ==
    [nodeId |-> nodeId,
     input |-> IF GetOutput(r.nodeOutputs, nodeId) = Undefined THEN Null
               ELSE GetOutput(r.nodeOutputs, nodeId),
     output |-> Null,
     metadata |-> [tokens |-> 0, apiCalls |-> 0, error |-> errorMessage]]

CatchBlockErrorAlwaysContinue(r, ev, nodeId, errorMessage) ==
    LET errorResult == ErrorResultFor(r, nodeId, errorMessage)
    IN  [run |-> [r EXCEPT !.results = Append(@, errorResult),
                           !.success = FALSE, !.error = errorMessage],
         events |-> Append(ev, ResultEvent(errorResult)),
         ctl |-> "next", thrown |-> NoError]

CatchBlockErrorSilent(r, ev, nodeId, errorMessage) ==
    LET errorResult == ErrorResultFor(r, nodeId, errorMessage)
    IN  IF ~r.continueOnError
        THEN [run |-> [r EXCEPT !.results = Append(@, errorResult)],
              events |-> ev, ctl |-> "throw",
              thrown |-> FailedAtNode(nodeId, errorMessage)]
        ELSE [run |-> [r EXCEPT !.results = Append(@, errorResult),
                                !.success = FALSE, !.error = errorMessage],
              events |-> ev, ctl |-> "next", thrown |-> NoError]

CatchBlockErrorAlwaysAbort(r, ev, nodeId, errorMessage) ==
    LET errorResult == ErrorResultFor(r, nodeId, errorMessage)
    IN  [run |-> [r EXCEPT !.results = Append(@, errorResult)],
         events |-> Append(ev, ResultEvent(errorResult)),
         ctl |-> "throw", thrown |-> FailedAtNode(nodeId, errorMessage)]

\* catch (blockError): record the synthesized error result, report it, then
\* abort (throw to the outer catch) or continue.
CatchBlockError(r, ev, nodeId, errorMessage) ==
    LET errorResult == ErrorResultFor(r, nodeId, errorMessage)
        r1          == [r EXCEPT !.results = Append(@, errorResult)]
        ev1         == Append(ev, ResultEvent(errorResult))
    IN  IF r.callbacks = "resultThrows"
        THEN [run |-> r1, events |-> ev1, ctl |-> "throw",
              thrown |-> CallbackThrew("onResult")]
        ELSE IF ~r.continueOnError
        THEN [run |-> r1, events |-> ev1, ctl |-> "throw",
              thrown |-> FailedAtNode(nodeId, errorMessage)]
        ELSE [run |-> [r1 EXCEPT !.success = FALSE, !.error = errorMessage],
              events |-> ev1, ctl |-> "next", thrown |-> NoError]

CountersSkipped(total, reported) == total

\* if (result.metadata.x) { totalX += result.metadata.x } for the tokens
\* and the API calls a result reports
Counters(total, reported) == total + reported

\* The code after the await when the block resolved with `result`.
OnResolved(r, ev, nodeId, result) ==
    LET r1  == [r EXCEPT !.nodeOutputs = SetOutput(@, nodeId, result.output),
                         !.totalTokens = Counters(@, result.metadata.tokens),
                         !.totalApiCalls =
                             Counters(@, result.metadata.apiCalls),
                         !.results = Append(@, result),
                         !.completedNodes = @ + 1]
        evP == Append(ev, ProgressEvent(nodeId, r1.completedNodes,
                                        Len(r.executionOrder)))
        evR == Append(evP, ResultEvent(result))
    IN  IF r.callbacks = "progressThrows"
        THEN CatchBlockError(r1, evP, nodeId, CallbackThrew("onProgress"))
        ELSE IF r.callbacks = "resultThrows"
        THEN CatchBlockError(r1, evR, nodeId, CallbackThrew("onResult"))
        ELSE IF result.metadata.error # NoError
        THEN IF ~r.continueOnError
             THEN CatchBlockError(r1, evR, nodeId,
                                  BlockFailedIn(nodeId, result.metadata.error))
             ELSE [run |-> [r1 EXCEPT !.success = FALSE,
                                      !.error = result.metadata.error],
                   events |-> evR, ctl |-> "next", thrown |-> NoError]
        ELSE [run |-> r1, events |-> evR, ctl |-> "next", thrown |-> NoError]

\* The code after the await when the block rejected or the timer fired.
OnRejected(r, ev, nodeId, errorMessage) ==
    CatchBlockError(r, ev, nodeId, errorMessage)

StopIgnored(stop) == FALSE

\* if (this.shouldStop) at the top of the loop body
StopObserved(stop) == stop

\* The top of `for (const nodeId of executionOrder)` up to the await: the
\* run is over ("done"), throws to the outer catch ("throw"), or has invoked
\* the node's block with the prepared input ("await").
LoopHead(r, stop) ==
    IF r.idx > Len(r.executionOrder)
    THEN [kind |-> "done", run |-> r, thrown |-> NoError]
    ELSE LET nodeId == CurrentNode(r)
             found  == SelectSeq(r.graph.nodes, LAMBDA n : n.id = nodeId)
         IN  IF StopObserved(stop)
             THEN [kind |-> "throw", run |-> r, thrown |-> StoppedByUser]
             ELSE IF found = <<>>
             THEN [kind |-> "throw", run |-> r, thrown |-> NodeNotFound(nodeId)]
             ELSE IF Head(found).type \notin blockRegistry
             THEN [kind |-> "throw", run |-> r,
                   thrown |-> UnknownBlockType(Head(found).type)]
             ELSE [kind |-> "await",
                   run |-> [r EXCEPT !.nodeInput =
                               PrepareInput(r.graph, nodeId, r.nodeOutputs)],
                   thrown |-> NoError]

CatchRunErrorKeepsSuccess(r, thrown) == [r EXCEPT !.error = thrown]

\* catch (runError) { success = false; error = runError.message }
CatchRunError(r, thrown) == [r EXCEPT !.success = FALSE, !.error = thrown]

IsRunningOnReturnStuck == TRUE

\* finally { this.isRunning = false }
IsRunningOnReturn == FALSE

\* run() from a point after a node (or from its start) to its next await or
\* to its return: st = [run, events, ctl, thrown], inv = the invocations so
\* far, stop = this.shouldStop as the loop reads it.
Resume(st, inv, stop) ==
    LET head == IF st.ctl = "throw"
                THEN [kind |-> "throw", run |-> st.run, thrown |-> st.thrown]
                ELSE LoopHead([st.run EXCEPT !.idx = @ + 1], stop)
        final == IF head.kind = "throw"
                 THEN CatchRunError(head.run, head.thrown)
                 ELSE head.run
    IN  /\ events' = st.events
        /\ run' = final
        /\ IF head.kind = "await"
           THEN /\ pc' = "awaiting"
                /\ isRunning' = TRUE
                /\ promise' = Pending
                /\ invoked' = Append(inv, [nodeId |-> CurrentNode(final),
                                           input |-> final.nodeInput])
           ELSE /\ pc' = "idle"
                /\ isRunning' = IsRunningOnReturn
                /\ promise' = Resolved(TraceOf(final))
                /\ invoked' = inv

ExecutionOrderUnsorted(g) == MapSeq(g.nodes, LAMBDA n : n.id)

\* const executionOrder = topologicalSort(graph)
ExecutionOrder(g) == topologicalSort(g).order

AlreadyExecutingIgnored == FALSE

\* if (this.isRunning) throw new Error("Runner is already executing a graph")
AlreadyExecuting == isRunning

ShouldStopOnEntryKept == shouldStop

\* this.shouldStop = false at the entry of run()
ShouldStopOnEntry == FALSE

RunLocalsCarriedOver == run

\* const results = [], totalTokens = 0, totalApiCalls = 0, success = true,
\* error = undefined, and a new nodeOutputs map, at the entry of run()
RunLocals == NoRun

IsRunningOnRejectionReset == FALSE

\* this.isRunning after the guard has thrown: the throw is before the try,
\* so the finally block that clears isRunning does not run.
IsRunningOnRejection == isRunning

ShouldStopOnRejectionCleared == FALSE

\* this.shouldStop after the guard has thrown: the throw is before
\* this.shouldStop = false.
ShouldStopOnRejection == shouldStop

\* run(graph, options)
Run(g, options) ==
    /\ calls < MaxCalls
    /\ calls' = calls + 1
    /\ UNCHANGED <<graphVars, evalVars, storeVars, late>>
    /\ IF AlreadyExecuting
       THEN /\ lastCall' = "rejected"
            /\ isRunning' = IsRunningOnRejection
            /\ shouldStop' = ShouldStopOnRejection
            /\ UNCHANGED <<pc, run, promise, invoked, events>>
       ELSE /\ lastCall' = "accepted"
            /\ shouldStop' = ShouldStopOnEntry
            /\ LET r0 == [RunLocals EXCEPT
                             !.graph = g,
                             !.continueOnError = options.continueOnError,
                             !.callbacks = options.callbacks,
                             !.timeout = options.timeout]
                   v  == validateGraph(g)
               IN  IF ~v.valid
                   THEN Resume([run |-> r0, events |-> <<>>, ctl |-> "throw",
                                thrown |-> ValidationFailed(v.errors)],
                               <<>>, ShouldStopOnEntry)
                   ELSE Resume([run |-> [r0 EXCEPT !.executionOrder =
                                            ExecutionOrder(g)],
                                events |-> <<>>, ctl |-> "next",
                                thrown |-> NoError],
                               <<>>, ShouldStopOnEntry)

\* The usage figures a block of the given type reports in its metadata.
BlockTokens(type) ==
    CASE type = "llmParse" -> 3 [] type = "contextMerge" -> 2 [] OTHER -> 0

BlockApiCalls(type) == IF type = "llmParse" THEN 1 ELSE 0

\* What a block resolves with: a result, or a result whose metadata carries
\* an application error.  The metadata names the block as blockType.
BlockResult(r, call, kind) ==
    [nodeId |-> CurrentNode(r),
     input |-> r.nodeInput,
     output |-> [t |-> "output", of |-> CurrentNode(r), call |-> call],
     metadata |-> [blockType |-> TypeOf(CurrentNode(r)),
                   tokens |-> BlockTokens(TypeOf(CurrentNode(r))),
                   apiCalls |-> BlockApiCalls(TypeOf(CurrentNode(r))),
                   error |-> IF kind = "appError" THEN AppError ELSE NoError]]

\* The invoked block resolves d milliseconds after its invocation, before
\* the timer of executeWithTimeout fires.
BlockResolvesAfter(d) ==
    /\ pc = "awaiting"
    /\ d <= TimeoutMs(run.timeout)
    /\ \E kind \in {"ok", "appError"} :
          Resume(OnResolved(run, events, CurrentNode(run),
                            BlockResult(run, calls, kind)),
                 invoked, shouldStop)
    /\ UNCHANGED <<graphVars, evalVars, storeVars, shouldStop, lastCall, calls, late>>

BlockResolves == \E d \in Durations : BlockResolvesAfter(d)

\* The invoked block throws or rejects d milliseconds after its invocation,
\* before the timer fires.
BlockRejectsAfter(d) ==
    /\ pc = "awaiting"
    /\ d <= TimeoutMs(run.timeout)
    /\ Resume(OnRejected(run, events, CurrentNode(run), BlockThrew),
              invoked, shouldStop)
    /\ UNCHANGED <<graphVars, evalVars, storeVars, shouldStop, lastCall, calls, late>>

BlockRejects == \E d \in Durations : BlockRejectsAfter(d)

\* The timer of executeWithTimeout fires after TimeoutMs: the block has not
\* settled by then (it may take arbitrarily long) and keeps running (the
\* model follows at most MaxLate such blocks up to their late completion).
TimerFires ==
    /\ pc = "awaiting"
    /\ late' = IF Cardinality(late) < MaxLate
               THEN late \cup {[call |-> calls, nodeId |-> CurrentNode(run)]}
               ELSE late
    /\ Resume(OnRejected(run, events, CurrentNode(run), TimedOut),
              invoked, shouldStop)
    /\ UNCHANGED <<graphVars, evalVars, storeVars, shouldStop, lastCall, calls>>

AfterLateCompletionRecorded(r, b) ==
    LET result == [nodeId |-> b.nodeId, input |-> Null,
                   output |-> [t |-> "output", of |-> b.nodeId,
                               call |-> b.call],
                   metadata |-> [blockType |-> TypeOf(b.nodeId),
                                 tokens |-> BlockTokens(TypeOf(b.nodeId)),
                                 apiCalls |-> BlockApiCalls(TypeOf(b.nodeId)),
                                 error |-> NoError]]
    IN  [r EXCEPT !.results = Append(@, result),
                  !.nodeOutputs = SetOutput(@, b.nodeId, result.output),
                  !.totalTokens = @ + result.metadata.tokens]

\* The locals of run() after the then/catch callback of a block that
\* completed after its timer fired: clearTimeout of the fired timer and
\* resolve/reject of the promise the timer already rejected do nothing, and
\* the await of run() has already continued with the timeout error.
AfterLateCompletion(r, b) == r

\* A timed-out block completes.
LateCompletion ==
    /\ \E b \in late : /\ late' = late \ {b}
                        /\ run' = AfterLateCompletion(run, b)
    /\ UNCHANGED <<graphVars, evalVars, storeVars, isRunning, shouldStop, pc, promise,
                   lastCall, calls, invoked, events>>

\* stop()
Stop ==
    /\ shouldStop' = TRUE
    /\ UNCHANGED <<graphVars, evalVars, storeVars, isRunning, pc, run, promise, lastCall, calls,
                   invoked, events, late>>

\* The graphs a call is made with: any graph of the universe on the first
\* call, one of a few small ones afterwards.
RerunGraphs ==
    {EmptyGraph,
     [nodes |-> MapSeq(<<"a", "b">>, GraphNode), edges |-> <<>>],
     [nodes |-> MapSeq(<<"a", "b", "c">>, GraphNode),
      edges |-> <<GraphEdge("a", "c", "a"), GraphEdge("b", "c", "b")>>]}

CallGraphs == IF calls = 0 THEN RunGraphs ELSE RerunGraphs

\* The options a call is made with: the timeout is varied on the first
\* call, for graphs of at most two nodes.
CallOptions(g) ==
    IF calls = 0 /\ Len(g.nodes) <= 2 THEN RunOptions
    ELSE {o \in RunOptions : o.timeout = TimeoutNotGiven}

\* A caller calls run(); a rejected call does not look at its arguments, so
\* one argument stands for all of them there.
RunCall ==
    \E g \in (IF AlreadyExecuting THEN {EmptyGraph} ELSE CallGraphs) :
        \E options \in (IF AlreadyExecuting
                         THEN {[continueOnError |-> FALSE,
                                callbacks |-> "quiet",
                                timeout |-> TimeoutNotGiven]}
                         ELSE CallOptions(g)) :
            Run(g, options)

Init ==
    /\ graph = EmptyGraph
    /\ sorted = [called |-> FALSE, threw |-> FALSE, node |-> "", order |-> <<>>]
    /\ validation = [called |-> FALSE, valid |-> FALSE, errors |-> <<>>]
    /\ revalidation = [called |-> FALSE, valid |-> FALSE, errors |-> <<>>]
    /\ EvalInit
    /\ RunnerInit
    /\ StoreInit

Next ==
    \/ RunCall
    \/ BlockResolves
    \/ BlockRejects
    \/ TimerFires
    \/ LateCompletion
    \/ Stop

Spec == Init /\ [][Next]_vars

\* setTimeout: the timer of a pending executeWithTimeout fires unless the
\* block settles first.
SpecLive == Spec /\ WF_vars(TimerFires)

---------------------------------------------------------------------------
(* engine/evaluator.ts: Evaluator                                          *)

\* A JavaScript number the evaluator computes: a whole number, or NaN.
Num(v) == [nan |-> FALSE, v |-> v]

NaN == [nan |-> TRUE, v |-> 0]

Max(a, b) == IF a >= b THEN a ELSE b

Min(a, b) == IF a <= b THEN a ELSE b

\* Math.round(num / den) for den > 0: the nearest whole number, halves up.
Round(num, den) == (2 * num + den) \div (2 * den)

\* Math.ceil(a / b) for a >= 0, b > 0
Ceil(a, b) == (a + b - 1) \div b

NoNode == ""

\* findFailureNode: the first result carrying an error, else the last
\* result, else undefined.
findFailureNode(trace) ==
    LET errorNodes == SelectSeq(trace.results,
                                LAMBDA r : r.metadata.error # NoError)
    IN  IF errorNodes # <<>> THEN Head(errorNodes).nodeId
        ELSE IF trace.results # <<>>
        THEN trace.results[Len(trace.results)].nodeId
        ELSE NoNode

runTestAlwaysPasses(trace, test) ==
    [id |-> test.id, name |-> test.name, passed |-> TRUE,
     message |-> "Test passed", nodeId |-> NoNode]

\* One step of tests.map in runTests: test.assertion(trace, trace.results)
\* returns true, false or a string, or throws an Error.
runTest(trace, test) ==
    CASE test.assertion = "true" ->
            [id |-> test.id, name |-> test.name, passed |-> TRUE,
             message |-> "Test passed", nodeId |-> NoNode]
      [] test.assertion = "false" ->
            [id |-> test.id, name |-> test.name, passed |-> FALSE,
             message |-> "Test failed", nodeId |-> NoNode]
      [] test.assertion = "string" ->
            [id |-> test.id, name |-> test.name, passed |-> FALSE,
             message |-> test.says, nodeId |-> findFailureNode(trace)]
      [] test.assertion = "throws" ->
            [id |-> test.id, name |-> test.name, passed |-> FALSE,
             message |-> test.says, nodeId |-> NoNode]

runTests(trace, tests) == MapSeq(tests, LAMBDA test : runTest(trace, test))

BudgetExceededAtLimit(type, limit, current) ==
    [type |-> type, limit |-> limit, current |-> current,
     exceeded |-> current >= limit]

\* One budgets.push of checkBudgets
Budget(type, limit, current) ==
    [type |-> type, limit |-> limit, current |-> current,
     exceeded |-> current > limit]

checkBudgets(trace, level) ==
    <<Budget("tokens", level.targetTokens, trace.totalTokens),
      Budget("apiCalls", level.targetApiCalls, trace.totalApiCalls),
      Budget("time", level.targetTime, Ceil(trace.totalDuration, 1000))>>

DurationPointsNone(totalDuration, n) == 0

\* The points for avgDuration = totalDuration / n, for n > 0 results.
DurationPoints(totalDuration, n) ==
    IF totalDuration < 1000 * n THEN 20
    ELSE IF totalDuration < 3000 * n THEN 10
    ELSE 0

\* calculateObservabilityScore.  With n results the score before rounding
\* is (n * (base + duration points) + n * error points + 30 * connected) / n.
\* With no result, avgDuration is Infinity or NaN (no duration points) and
\* connectionScore is 0 / 0 = NaN, so the score is NaN, which Math.round
\* and Math.min leave NaN.
calculateObservabilityScore(trace, level) ==
    LET n          == Len(trace.results)
        errors     == Count(trace.results,
                            LAMBDA r : r.metadata.error # NoError)
        connected  == Count(trace.results, LAMBDA r : r.input # Null)
        base       == IF trace.success THEN 30 ELSE 0
        errorsN    == IF errors = 0 THEN 20 * n
                      ELSE Max(0, 20 * n - 20 * errors)
        duration   == DurationPoints(trace.totalDuration, n)
    IN  IF n = 0 THEN NaN
        ELSE Num(Min(100, Round(n * (base + duration) + errorsN
                                  + 30 * connected, n)))

\* level.tests.find(t => t.id === id)
FindTest(level, id) == SelectSeq(level.tests, LAMBDA t : t.id = id)

\* test?.points || 0
PointsOf(level, id) ==
    IF FindTest(level, id) = <<>> THEN 0 ELSE Head(FindTest(level, id)).points

CategoryOfOwnTest(level, testResults, i) == level.tests[i].category

\* level.tests.find(lt => lt.id === t.id)?.category
CategoryOf(level, testResults, i) ==
    IF FindTest(level, testResults[i].id) = <<>> THEN "undefined"
    ELSE Head(FindTest(level, testResults[i].id)).category

---------------------------------------------------------------------------
(* SpecGraph: the graph functions on every graph of the universe.          *)

PlainEdges == {GraphEdge(s, t, NoHandle) : s \in Ids, t \in Ids}

Graphs == {[nodes |-> MapSeq(ids, GraphNode), edges |-> es] :
              ids \in IdLists(Ids), es \in SeqsUpTo(PlainEdges, MaxEdges)}

NotSorted == [called |-> FALSE, threw |-> FALSE, node |-> "", order |-> <<>>]

NotValidated == [called |-> FALSE, valid |-> FALSE, errors |-> <<>>]

InitGraph ==
    /\ graph \in Graphs
    /\ sorted = NotSorted
    /\ validation = NotValidated
    /\ revalidation = NotValidated
    /\ EvalInit
    /\ RunnerInit
    /\ StoreInit

\* A caller evaluates topologicalSort(graph).
SortGraph ==
    /\ ~sorted.called
    /\ sorted' = [called |-> TRUE] @@ topologicalSort(graph)
    /\ UNCHANGED <<graph, validation, revalidation>>
    /\ UNCHANGED <<runnerVars, evalVars, storeVars>>

GraphAfterValidateEdgesDropped(g) == [g EXCEPT !.edges = <<>>]

\* The graph as validateGraph(graph) leaves it: validateGraph and
\* topologicalSort read graph.nodes and graph.edges and write only to
\* their own arrays, sets and maps.
GraphAfterValidate(g) == g

\* A caller evaluates validateGraph(graph).
ValidateGraph ==
    /\ ~validation.called
    /\ validation' = [called |-> TRUE] @@ validateGraph(graph)
    /\ graph' = GraphAfterValidate(graph)
    /\ UNCHANGED <<sorted, revalidation>>
    /\ UNCHANGED <<runnerVars, evalVars, storeVars>>

\* A caller evaluates validateGraph(graph) a second time.
ValidateGraphAgain ==
    /\ validation.called
    /\ ~revalidation.called
    /\ revalidation' = [called |-> TRUE] @@ validateGraph(graph)
    /\ graph' = GraphAfterValidate(graph)
    /\ UNCHANGED <<sorted, validation>>
    /\ UNCHANGED <<runnerVars, evalVars, storeVars>>

NextGraph == SortGraph \/ ValidateGraph \/ ValidateGraphAgain

SpecGraph == InitGraph /\ [][NextGraph]_vars

BudgetPenaltyNone(exceededBudgets) == 0

\* exceededBudgets * 10
BudgetPenalty(exceededBudgets) == exceededBudgets * 10

\* calculateScore.  With total > 0 test points the score before rounding is
\* (7000 * earned + 30 * observability * total - 100 * penalty * total)
\* / (100 * total); a NaN observability score makes it NaN, which
\* Math.round, Math.min and Math.max leave NaN and for which >= is false.
calculateScore(testResults, budgets, observabilityScore, level) ==
    LET passedTests     == SelectSeq(testResults, LAMBDA t : t.passed)
        totalTestPoints == SumSeq(MapSeq(level.tests, LAMBDA t : t.points))
        earnedTestPoints ==
            SumSeq(MapSeq(passedTests, LAMBDA t : PointsOf(level, t.id)))
        exceededBudgets == Len(SelectSeq(budgets, LAMBDA b : b.exceeded))
        den             == IF totalTestPoints > 0 THEN 100 * totalTestPoints
                           ELSE 100
        testScoreNum    == IF totalTestPoints > 0 THEN 7000 * earnedTestPoints
                           ELSE 0
        rawNum          == testScoreNum
                           + (den \div 100) * 30 * observabilityScore.v
                           - den * BudgetPenalty(exceededBudgets)
        finalScore      == IF observabilityScore.nan THEN NaN
                           ELSE Num(Max(0, Min(100, Round(rawNum, den))))
        allCriticalTestsPassed ==
            \A i \in 1..Len(testResults) :
                CategoryOf(level, testResults, i) = "functionality"
                    => testResults[i].passed
    IN  [score |-> finalScore,
         passed |-> /\ allCriticalTestsPassed
                    /\ ~finalScore.nan
                    /\ finalScore.v >= level.starThresholds.oneStar]

\* evaluate(trace, level)
evaluate(trace, level) ==
    LET testResults        == runTests(trace, level.tests)
        budgetConstraints  == checkBudgets(trace, level)
        observabilityScore == calculateObservabilityScore(trace, level)
        sp == calculateScore(testResults, budgetConstraints,
                             observabilityScore, level)
    IN  [passed |-> sp.passed, score |-> sp.score, tests |-> testResults,
         budgets |-> budgetConstraints,
         observabilityScore |-> observabilityScore]

\* Evaluator.createAssertions().executionSucceeded()(trace)
executionSucceeded(trace) ==
    IF trace.success THEN "true" ELSE "string"

\* r.metadata.nodeType of a result
NodeTypeOf(r) ==
    IF "nodeType" \in DOMAIN r.metadata THEN r.metadata.nodeType
    ELSE "undefined"

\* Evaluator.createAssertions().usesBlockType(blockType)(trace)
usesBlockType(blockType, trace) ==
    IF \E k \in 1..Len(trace.results) :
          NodeTypeOf(trace.results[k]) = blockType
    THEN "true" ELSE "string"

---------------------------------------------------------------------------
(* SpecEval: evaluate() on every trace and level of a bounded universe.    *)

MaxTests == 2

\* The tests of a level: a functionality and a performance test that share
\* the id t1, and a quality test t2, each with one of the four behaviours
\* of an assertion.
TestCases ==
    {[id |-> k.id, name |-> k.name, category |-> k.category,
      points |-> k.points, assertion |-> a, says |-> "reason"] :
        k \in {[id |-> "t1", name |-> "works", category |-> "functionality",
                points |-> 20],
               [id |-> "t1", name |-> "fast", category |-> "performance",
                points |-> 10],
               [id |-> "t2", name |-> "tidy", category |-> "quality",
                points |-> 5]},
        a \in {"true", "false", "string", "throws"}}

\* The levels with at most n tests.
Levels(n) ==
    {[tests |-> ts, targetTokens |-> 5, targetApiCalls |-> 1,
      targetTime |-> 1, starThresholds |-> [oneStar |-> one]] :
        ts \in SeqsUpTo(TestCases, n), one \in {0, 60}}

MaxResults == 3

\* The results of a trace: of a connected node, of a node without input,
\* and the error result of a failed node.
TraceResults ==
    {[nodeId |-> "b", input |-> [t |-> "output", of |-> "a", call |-> 1],
      output |-> [t |-> "output", of |-> "b", call |-> 1],
      metadata |-> [tokens |-> 0, apiCalls |-> 0, error |-> NoError]],
     [nodeId |-> "a", input |-> Null,
      output |-> [t |-> "output", of |-> "a", call |-> 1],
      metadata |-> [tokens |-> 0, apiCalls |-> 0, error |-> NoError]],
     [nodeId |-> "c", input |-> Null, output |-> Null,
      metadata |-> [tokens |-> 0, apiCalls |-> 0, error |-> BlockThrew]]}

\* The traces with at most n results.
Traces(n) ==
    {[results |-> rs, totalTokens |-> tok, totalApiCalls |-> api,
      totalDuration |-> ms, success |-> ok,
      error |-> IF ok THEN NoError ELSE BlockThrew] :
        rs \in SeqsUpTo(TraceResults, n), tok \in {5, 6}, api \in {1, 2},
        ms \in {1000, 1001, 6000}, ok \in BOOLEAN}

\* What evaluate() is called with: every level of at most MaxTests tests
\* with every trace of at most one result, and every trace of at most
\* MaxResults results with every level of at most one test.
EvalInputs ==
    [trace : Traces(1), level : Levels(MaxTests)]
    \cup [trace : Traces(MaxResults), level : Levels(1)]

InitEval ==
    /\ evalInput \in EvalInputs
    /\ evalResult = NotEvaluated
    /\ graph = EmptyGraph
    /\ sorted = NotSorted
    /\ validation = NotValidated
    /\ revalidation = NotValidated
    /\ RunnerInit
    /\ StoreInit

\* A caller evaluates evaluate(trace, level).
Evaluate ==
    /\ ~evalResult.called
    /\ evalResult' = [called |-> TRUE]
                      @@ evaluate(evalInput.trace, evalInput.level)
    /\ UNCHANGED <<evalInput, graphVars, runnerVars, storeVars>>

NextEval == Evaluate

SpecEval == InitEval /\ [][NextEval]_vars

---------------------------------------------------------------------------
(* Claims about the graph functions (checked under SpecGraph).             *)

\* C1: for every acyclic graph whose edges all reference existing nodes,
\* topologicalSort returns a list holding every node id exactly once in
\* which the source of every edge comes before its target.
C1_TopologicalOrder ==
    (sorted.called /\ ~HasCycle(graph) /\ NoDangling(graph)) =>
        /\ ~sorted.threw
        /\ Len(sorted.order) = Len(graph.nodes)
        /\ Range(sorted.order) = NodeIds(graph)
        /\ \A i \in 1..Len(graph.edges) :
              Position(sorted.order, graph.edges[i].source)
                < Position(sorted.order, graph.edges[i].target)

\* A chain of two edges was sorted into an order that differs from the
\* order of the node array.
C1_Witness ==
    /\ sorted.called /\ ~HasCycle(graph) /\ NoDangling(graph)
    /\ Len(graph.nodes) = 3 /\ Len(graph.edges) >= 2
    /\ \E i, j \in 1..Len(graph.edges) :
          graph.edges[i].target = graph.edges[j].source
    /\ sorted.order # MapSeq(graph.nodes, LAMBDA n : n.id)

\* C2 as stated: for every graph whose edges contain a directed cycle,
\* topologicalSort fails with a cycle error naming a node on a cycle, and
\* validateGraph returns valid = false.
C2_AsStated ==
    HasCycle(graph) =>
        /\ sorted.called => (sorted.threw /\ OnCycle(graph, sorted.node))
        /\ validation.called => ~validation.valid

\* Some node of the graph lies on a directed cycle of the edges.
HasCycleThroughNode(g) == \E u \in NodeIds(g) : OnCycle(g, u)

\* C2 amended: when a node of the graph lies on a directed cycle,
\* topologicalSort fails with a cycle error naming a node on a cycle; and for
\* every graph whose edges contain a cycle validateGraph returns valid = false.
C2_CycleDetected ==
    /\ (sorted.called /\ HasCycleThroughNode(graph)) =>
            (sorted.threw /\ OnCycle(graph, sorted.node))
    /\ (validation.called /\ HasCycle(graph)) => ~validation.valid

\* A cycle of three existing nodes and no dangling edge: sort threw, and the
\* cycle error is the only validation error.
C2_Witness ==
    /\ sorted.called /\ validation.called
    /\ NoDangling(graph) /\ HasCycle(graph)
    /\ \A u \in EdgeIds(graph) : ~HasEdge(graph, u, u)
    /\ \A u, v \in EdgeIds(graph) : ~(HasEdge(graph, u, v) /\ HasEdge(graph, v, u))
    /\ sorted.threw
    /\ Len(validation.errors) = 1

IsDanglingError(err) == err.kind \in {"source", "target"}

\* C3 as stated: the number of dangling-edge errors equals the number of
\* edges whose source or target (or both) is not a node of the graph.
C3_AsStated ==
    validation.called =>
        Count(validation.errors, IsDanglingError)
          = Count(graph.edges, LAMBDA e : IsDangling(graph, e))

MissingEndpoints(g) ==
    Count(g.edges, LAMBDA e : e.source \notin NodeIds(g))
      + Count(g.edges, LAMBDA e : e.target \notin NodeIds(g))

\* C3 amended: validateGraph reports one error per missing endpoint: an edge
\* with one missing endpoint gives one error, an edge whose source and
\* target are both missing gives two, and an edge with both endpoints
\* present gives none.
C3_OneErrorPerMissingEndpoint ==
    validation.called =>
        /\ Count(validation.errors, IsDanglingError) = MissingEndpoints(graph)
        /\ \A id \in Ids :
              Count(validation.errors, LAMBDA err : err = [kind |-> "source", id |-> id])
                = Count(graph.edges, LAMBDA e : e.source = id /\ id \notin NodeIds(graph))
        /\ \A id \in Ids :
              Count(validation.errors, LAMBDA err : err = [kind |-> "target", id |-> id])
                = Count(graph.edges, LAMBDA e : e.target = id /\ id \notin NodeIds(graph))

\* One edge with both endpoints missing and one with only its target missing.
C3_Witness ==
    /\ validation.called
    /\ \E i, j \in 1..Len(graph.edges) :
          /\ graph.edges[i].source \notin NodeIds(graph)
          /\ graph.edges[i].target \notin NodeIds(graph)
          /\ graph.edges[j].source \in NodeIds(graph)
          /\ graph.edges[j].target \notin NodeIds(graph)
    /\ Len(validation.errors) = 3

---------------------------------------------------------------------------
(* Claims about the runner (checked under Spec, C9 under SpecLive).        *)

Settled == pc = "idle" /\ promise.state = "resolved"

AllRegistered(g) == \A i \in 1..Len(g.nodes) : g.nodes[i].type \in blockRegistry

InvokedNodes == MapSeq(invoked, LAMBDA inv : inv.nodeId)

Failed(result) == result.metadata.error # NoError

\* The edge the i-th entry of inputNodes came from (the i-th edge into nodeId).
InboundEdge(g, nodeId, i) == SelectSeq(g.edges, LAMBDA e : e.target = nodeId)[i]

\* The handle looked up for the i-th input node.
HandleIdPerEdge(g, inputNodes, nodeId, i) ==
    LET inputEdge == InboundEdge(g, nodeId, i)
    IN  IF inputEdge.targetHandle # NoHandle THEN inputEdge.targetHandle
        ELSE PositionalKey(i)

\* The key the claim gives the i-th inbound edge of nodeId.
EdgeKeys(g, nodeId) ==
    [i \in 1..Len(getInputNodes(g, nodeId)) |->
        HandleIdPerEdge(g, getInputNodes(g, nodeId), nodeId, i)]

DistinctKeys(keys) == \A i, j \in 1..Len(keys) : i # j => keys[i] # keys[j]

\* C4: a node with several inbound edges is invoked with an object holding
\* one entry per inbound edge, keyed by that edge's targetHandle (input{N}
\* when unset) and valued with the output of that edge's source; stated for
\* the edge lists whose keys are pairwise distinct.
C4_AsStated ==
    \A k \in 1..Len(invoked) :
        LET nodeId == invoked[k].nodeId
            ins    == getInputNodes(run.graph, nodeId)
            keys   == EdgeKeys(run.graph, nodeId)
        IN  (Len(ins) >= 2 /\ DistinctKeys(keys)) =>
                /\ invoked[k].input.t = "object"
                /\ DOMAIN invoked[k].input.fields = Range(keys)
                /\ \A i \in 1..Len(ins) :
                      invoked[k].input.fields[keys[i]]
                        = GetOutput(run.nodeOutputs, ins[i])

ZeroEdgeRun ==
    /\ Settled
    /\ Len(run.graph.edges) = 0
    /\ AllRegistered(run.graph)

EachNodeInvokedOnceWithNull ==
    /\ \A n \in NodeIds(run.graph) :
          Count(invoked, LAMBDA inv : inv.nodeId = n) = 1
    /\ \A k \in 1..Len(invoked) : invoked[k].input = Null

\* C5 as stated: a run of a graph with N nodes, zero edges and all block
\* types registered invokes the block of each node exactly once, each with
\* input = null.
C5_AsStated == ZeroEdgeRun => EachNodeInvokedOnceWithNull

\* C5 amended: the same, provided stop() is not called during the run,
\* neither callback throws, and continueOnError is set or no block fails.
C5_ZeroEdgesAllInvoked ==
    (/\ ZeroEdgeRun
     /\ ~shouldStop
     /\ run.callbacks = "quiet"
     /\ (run.continueOnError
           \/ \A k \in 1..Len(run.results) : ~Failed(run.results[k])))
    => EachNodeInvokedOnceWithNull

\* Three unconnected nodes ran to the end although one of them failed.
C5_Witness ==
    /\ ZeroEdgeRun /\ ~shouldStop /\ run.callbacks = "quiet"
    /\ Len(run.graph.nodes) = 3
    /\ run.continueOnError
    /\ \E k \in 1..Len(run.results) : Failed(run.results[k])
    /\ Len(invoked) = 3

\* C6: with continueOnError = false, when the k-th node in execution order
\* throws, rejects or times out, the run returns at once: the trace has
\* exactly k results (k-1 successful ones, then one error result with
\* output null), success is false, and no further block is invoked.
C6_AbortAtFailingNode ==
    [][ (/\ pc = "awaiting"
         /\ ~run.continueOnError
         /\ (BlockRejects \/ TimerFires))
        => (/\ pc' = "idle"
            /\ promise'.state = "resolved"
            /\ ~promise'.trace.success
            /\ Len(promise'.trace.results) = run.idx
            /\ \A j \in 1..(run.idx - 1) :
                  /\ promise'.trace.results[j].nodeId = run.executionOrder[j]
                  /\ ~Failed(promise'.trace.results[j])
                  /\ promise'.trace.results[j].output # Null
            /\ promise'.trace.results[run.idx].nodeId = run.executionOrder[run.idx]
            /\ Failed(promise'.trace.results[run.idx])
            /\ promise'.trace.results[run.idx].output = Null
            /\ invoked' = invoked
            /\ Len(invoked) = run.idx) ]_vars

\* The second of three nodes threw or timed out in the default mode.
C6_Witness ==
    /\ Settled /\ ~run.continueOnError
    /\ Len(run.executionOrder) = 3
    /\ Len(run.results) = 2
    /\ run.results[2].metadata.error \in {BlockThrew, TimedOut}
    /\ Len(invoked) = 2

ValidRun ==
    /\ Settled
    /\ validateGraph(run.graph).valid
    /\ AllRegistered(run.graph)

AllNodesAttempted ==
    /\ InvokedNodes = run.executionOrder
    /\ Len(promise.trace.results) = Len(run.graph.nodes)
    /\ (\E k \in 1..Len(promise.trace.results) :
            Failed(promise.trace.results[k])) => ~promise.trace.success

\* C7 as stated: with continueOnError = true and all block types registered
\* (and a graph that passes validation) the block of every node in the
\* execution order is invoked, results.length equals the number of nodes,
\* and success is false when a node failed.
C7_AsStated == (ValidRun /\ run.continueOnError) => AllNodesAttempted

\* C7 amended: the same, provided stop() is not called during the run and
\* the callbacks do not throw.
C7_ContinuePastFailure ==
    (ValidRun /\ run.continueOnError /\ ~shouldStop /\ run.callbacks = "quiet")
    => AllNodesAttempted

\* The first of three nodes threw and the two others still ran.
C7_Witness ==
    /\ ValidRun /\ run.continueOnError /\ ~shouldStop
    /\ run.callbacks = "quiet"
    /\ Len(run.executionOrder) = 3
    /\ run.results[1].metadata.error = BlockThrew
    /\ Len(invoked) = 3
    /\ ~promise.trace.success

\* C8: a run() call made while an accepted run has not settled is rejected
\* and invokes no block and no callback.
C8_OneRunInFlight ==
    [][ (pc = "awaiting" /\ calls' = calls + 1)
        => (/\ lastCall' = "rejected"
            /\ invoked' = invoked
            /\ events' = events
            /\ UNCHANGED <<run, promise, pc>>) ]_vars

\* A call was rejected while a block of the accepted run was executing.
C8_Witness ==
    /\ lastCall = "rejected"
    /\ pc = "awaiting"
    /\ calls = 2
    /\ Len(invoked) >= 1

\* C9: `running` is true exactly while an accepted run has not settled,
\* every accepted run settles, and a run() made after it is accepted.
C9_Lifecycle ==
    /\ [](isRunning <=> pc = "awaiting")
    /\ [](pc = "idle" <=> promise.state \in {"none", "resolved"})
    /\ (pc = "awaiting") ~> (pc = "idle" /\ promise.state = "resolved")
    /\ [][ (pc = "idle" /\ calls' = calls + 1)
           => lastCall' = "accepted" ]_vars

\* A second run was accepted after the first one had ended in a failure.
C9_Witness ==
    /\ calls = 2 /\ lastCall = "accepted"
    /\ Settled /\ ~isRunning
    /\ ~promise.trace.success
    /\ Len(invoked) >= 2

\* C10: run() on a graph that fails validation rejects its promise; the
\* caller receives no ExecutionTrace.
C10_AsStated ==
    (lastCall = "accepted" /\ pc = "idle"
       /\ ~validateGraph(run.graph).valid)
    => promise.state # "resolved"

\* The graph of the accepted run has a cycle or a dangling edge.
FailsValidation(g) == HasCycle(g) \/ ~NoDangling(g)

\* C11: when run() is given a graph that fails validation (a cycle or a
\* dangling edge) no run is attempted: no block is invoked, onProgress and
\* onResult are never called, and no ExecutionResult is recorded.
C11_NoRunAttempted ==
    (lastCall = "accepted" /\ FailsValidation(run.graph))
    => (/\ pc = "idle"
        /\ invoked = <<>>
        /\ events = <<>>
        /\ run.results = <<>>
        /\ promise.state = "resolved" => promise.trace.results = <<>>)

\* run() was given three registered nodes with a cycle, and has returned.
C11_Witness ==
    /\ lastCall = "accepted" /\ Settled
    /\ HasCycle(run.graph)
    /\ Len(run.graph.nodes) = 3
    /\ ~promise.trace.success
    /\ invoked = <<>>

\* The nodes of the execution order whose block type is registered.
RegisteredNodes(r) ==
    {n \in Range(r.executionOrder) :
        \E i \in 1..Len(r.graph.nodes) :
            r.graph.nodes[i].id = n /\ r.graph.nodes[i].type \in blockRegistry}

\* C12 as stated: with continueOnError = true a node whose type is not in
\* the registry does not abort the run: the nodes after it are still run
\* (no stop() and no throwing callback being involved).
C12_AsStated ==
    (/\ Settled /\ lastCall = "accepted"
     /\ ~FailsValidation(run.graph)
     /\ run.continueOnError
     /\ ~shouldStop
     /\ run.callbacks = "quiet")
    => RegisteredNodes(run) \subseteq Range(InvokedNodes)

\* The block invoked last settles or its timer fires.
InFlightSettles == BlockResolves \/ BlockRejects \/ TimerFires

\* The result the settling of the in-flight invocation adds to the results.
InFlightResult == run'.results[Len(run.results) + 1]

\* After stop(), while a block is in flight: no invocation starts, and when
\* the in-flight one settles the run returns with its result recorded.
StopKeepsInFlight ==
    /\ invoked' = invoked
    /\ InFlightSettles =>
          /\ pc' = "idle" /\ promise'.state = "resolved"
          /\ Len(run'.results) > Len(run.results)
          /\ InFlightResult.nodeId = CurrentNode(run)
          /\ BlockResolves =>
                \E kind \in {"ok", "appError"} :
                    InFlightResult = BlockResult(run, calls, kind)
          /\ \E k \in 1..Len(promise'.trace.results) :
                promise'.trace.results[k] = InFlightResult

InFlightReported == ResultEvent(InFlightResult) \in Range(events')

RunErrors ==
    {StoppedByUser}
    \cup {UnknownBlockType(t) : t \in {"dataFormatter"}}
    \cup {NodeNotFound(n) : n \in Ids}
    \cup {CallbackThrew(cb) : cb \in {"onProgress", "onResult"}}
    \cup {FailedAtNode(n, c) :
            n \in Ids \cup {"d"},
            c \in {BlockThrew, TimedOut, CallbackThrew("onProgress")}
                  \cup {BlockFailedIn(m, AppError) : m \in Ids \cup {"d"}}}

\* The run ended before every node of the order had been invoked.
EndedEarly == Len(invoked) < Len(run.executionOrder)

\* C14: an error raised after validation has passed (stop observed at a node
\* boundary, unknown block type, block throw, timeout) never makes run()
\* reject: run() resolves with a trace whose success is false and whose
\* error is the message of the error; a stop observed at a node boundary
\* gives success = false with the "stopped by user" message.
C14_ErrorsBecomeFailedTrace ==
    /\ []( (lastCall = "accepted" /\ pc = "idle"
              /\ ~FailsValidation(run.graph))
           => (/\ promise.state = "resolved"
               /\ promise.trace.success <=> promise.trace.error = NoError
               /\ (\E k \in 1..Len(promise.trace.results) :
                      promise.trace.results[k].metadata.error
                          \in {BlockThrew, TimedOut})
                    => ~promise.trace.success
               /\ EndedEarly
                    => (~promise.trace.success
                        /\ promise.trace.error \in RunErrors)) )
    /\ [][ (/\ pc = "awaiting" /\ shouldStop
            /\ run.idx < Len(run.executionOrder)
            /\ run.callbacks = "quiet"
            /\ InFlightSettles
            /\ run.continueOnError \/ ~Failed(InFlightResult))
           => (/\ promise'.state = "resolved"
               /\ ~promise'.trace.success
               /\ promise'.trace.error = StoppedByUser) ]_vars

\* A run of three nodes was stopped after its second node and has resolved
\* with a failed trace.
C14_Witness ==
    /\ Settled /\ lastCall = "accepted"
    /\ ~FailsValidation(run.graph)
    /\ Len(run.executionOrder) = 3
    /\ Len(invoked) = 2
    /\ ~promise.trace.success
    /\ promise.trace.error = StoppedByUser

\* The run was aborted by a thrown error: a node failure with
\* continueOnError = false, a user stop or an unknown block type.
Aborted(trace) ==
    trace.error.kind \in {"failedAtNode", "stopped", "unknownType"}

IsPrefix(s, t) == Len(s) <= Len(t) /\ \A i \in 1..Len(s) : s[i] = t[i]

\* C15 as stated: when a run is aborted by a thrown error the value the
\* caller receives contains none of the results recorded before the abort.
C15_AsStated ==
    (Settled /\ Aborted(promise.trace)) => promise.trace.results = <<>>

\* C15 amended: when a run is aborted by a thrown error the caller receives
\* a trace whose results hold every result recorded before the abort, in
\* the order they were recorded.
C15_PartialResultsReturned ==
    [][ (pc = "awaiting" /\ pc' = "idle")
        => (/\ promise'.state = "resolved"
            /\ Aborted(promise'.trace)
                 => (/\ IsPrefix(run.results, promise'.trace.results)
                     /\ promise'.trace.results = run'.results)) ]_vars

\* The third of three nodes failed in the default mode: the trace holds the
\* two results recorded before and the error result.
C15_Witness ==
    /\ Settled /\ Aborted(promise.trace)
    /\ promise.trace.error.kind = "failedAtNode"
    /\ Len(promise.trace.results) = 3
    /\ ~Failed(promise.trace.results[1])
    /\ ~Failed(promise.trace.results[2])
    /\ Failed(promise.trace.results[3])

\* The node ids of the results onResult was called with, in call order.
ReportedResults ==
    MapSeq(SelectSeq(events, LAMBDA e : e.cb = "onResult"),
           LAMBDA e : e.result)

ResultNodes(results) == MapSeq(results, LAMBDA res : res.nodeId)

\* C16 as stated: in every run (the callbacks not throwing), for both values
\* of continueOnError and whatever the block does, each executed node has
\* exactly one result in trace.results and causes exactly one onResult
\* notification, in execution order.
C16_AsStated ==
    (Settled /\ lastCall = "accepted" /\ run.callbacks = "quiet")
    => (/\ ResultNodes(promise.trace.results) = InvokedNodes
        /\ ResultNodes(ReportedResults) = InvokedNodes)

\* The onProgress calls of the run, in call order.
ProgressReports == SelectSeq(events, LAMBDA e : e.cb = "onProgress")

\* (completedNodes / totalNodes) * 100, as a whole percentage.
Percent(completed, total) == (completed * 100) \div total

\* C17 as stated: onProgress is called once after each node the run has
\* processed, failed nodes included, with percent = processed so far / total
\* x 100 (the callbacks not throwing), so a run that processes all N nodes
\* ends with a report of 100.
C17_AsStated ==
    (Settled /\ lastCall = "accepted" /\ run.callbacks = "quiet")
    => (/\ Len(ProgressReports) = Len(invoked)
        /\ \A k \in 1..Len(ProgressReports) :
              /\ ProgressReports[k].nodeId = invoked[k].nodeId
              /\ Percent(ProgressReports[k].completed,
                         ProgressReports[k].total)
                   = Percent(k, Len(run.executionOrder))
        /\ (Len(invoked) = Len(run.executionOrder) /\ Len(invoked) > 0)
             => Percent(ProgressReports[Len(ProgressReports)].completed,
                        ProgressReports[Len(ProgressReports)].total) = 100)

\* C18: provided the callbacks do not throw, the sequence of results passed
\* to onResult during a run is, at every moment, the sequence of results
\* recorded so far, and at the end exactly trace.results of the returned
\* trace: every recorded result, success or error, once and in order.
C18_ResultsEmittedInOrder ==
    run.callbacks = "quiet"
    => (/\ ReportedResults = run.results
        /\ Settled => ReportedResults = promise.trace.results)

\* A run of three nodes with continueOnError whose results, one of them an
\* error result of a thrown block, were all passed to onResult.
C18_Witness ==
    /\ Settled /\ run.callbacks = "quiet"
    /\ Len(promise.trace.results) = 3
    /\ promise.trace.results[2].metadata.error = BlockThrew
    /\ ~Failed(promise.trace.results[3])
    /\ ReportedResults = promise.trace.results

\* The timer fired for the node in flight: one error result with the
\* timeout message is recorded for it, and the policy of a thrown error is
\* applied (abort in the default mode, go on with continueOnError).
TimeoutRecorded ==
    /\ Len(run'.results) = Len(run.results) + 1
    /\ InFlightResult.nodeId = CurrentNode(run)
    /\ InFlightResult.output = Null
    /\ InFlightResult.metadata.error = TimedOut
    /\ ~run.continueOnError
         => (/\ pc' = "idle" /\ invoked' = invoked
             /\ ~promise'.trace.success
             /\ promise'.trace.error
                  \in {FailedAtNode(CurrentNode(run), TimedOut),
                       CallbackThrew("onResult")})
    /\ (/\ run.continueOnError /\ run.callbacks = "quiet" /\ ~shouldStop
        /\ run.idx < Len(run.executionOrder)
        /\ run.executionOrder[run.idx + 1] \in RegisteredNodes(run))
         => (/\ pc' = "awaiting"
             /\ Len(invoked') = Len(invoked) + 1
             /\ ~run'.success /\ run'.error = TimedOut)

\* The block in flight settled by itself: nothing is recorded as timed out.
NotRecordedAsTimedOut ==
    \A k \in (Len(run.results) + 1)..Len(run'.results) :
        run'.results[k].metadata.error # TimedOut

\* C19 as stated: a node whose block has not completed when the timeout
\* elapses (options.timeout, 30000 ms when not given) is recorded as an
\* error result with the timeout message and the abort-or-continue policy
\* is applied to it; a block that completes before the timer fires is never
\* recorded as timed out.
C19_AsStated ==
    [][ /\ TimerFires => TimeoutRecorded
        /\ (BlockResolves \/ BlockRejects) => NotRecordedAsTimedOut
        /\ \A d \in Durations :
              (BlockResolvesAfter(d) \/ BlockRejectsAfter(d))
                  => d <= TimeoutMsAsGiven(run.timeout) ]_vars

\* The nodes that have a recorded result.
NodesWithResult(r) == Range(ResultNodes(r.results))

\* The sources of the edges into nodeId.
Producers(g, nodeId) == Range(getInputNodes(g, nodeId))

\* s lists its nodes in an order compatible with the edges of g.
InTopologicalOrder(g, s) ==
    \A i, j \in 1..Len(s) : HasEdge(g, s[i], s[j]) => i < j

\* C20: node execution is strictly sequential in topological order: a block
\* is invoked only when every earlier invocation has completed or timed out
\* (has its result recorded) and every upstream producer of the node has a
\* recorded result; at most one invocation is in flight, and trace.results
\* is in topological order.
C20_SequentialTopological ==
    /\ [][ (invoked' # invoked /\ invoked' # <<>>)
           => LET k == Len(invoked')
                  n == invoked'[k].nodeId
              IN  /\ \A j \in 1..(k - 1) :
                        invoked'[j].nodeId \in NodesWithResult(run')
                  /\ n \notin NodesWithResult(run')
                  /\ Producers(run'.graph, n) \subseteq NodesWithResult(run')
                  /\ IsPrefix(MapSeq(invoked', LAMBDA inv : inv.nodeId),
                              run'.executionOrder) ]_vars
    /\ []( /\ NodesWithResult(run) \subseteq Range(InvokedNodes)
           /\ pc = "awaiting"
                => Range(InvokedNodes) \ NodesWithResult(run)
                     = {CurrentNode(run)}
           /\ pc = "idle" => Range(InvokedNodes) = NodesWithResult(run)
           /\ InTopologicalOrder(run.graph, InvokedNodes)
           /\ Settled
                => (/\ InTopologicalOrder(run.graph,
                                          ResultNodes(promise.trace.results))
                    /\ \A i, j \in 1..Len(promise.trace.results) :
                          i <= j =>
                            Position(run.executionOrder,
                                     promise.trace.results[i].nodeId)
                              <= Position(run.executionOrder,
                                          promise.trace.results[j].nodeId)) )

\* A run whose execution order (c, a, b) differs from the node array has
\* recorded its three results in that order.
C20_Witness ==
    /\ Settled
    /\ run.executionOrder = <<"c", "a", "b">>
    /\ ResultNodes(promise.trace.results) = <<"c", "a", "b">>
    /\ HasEdge(run.graph, "c", "a")

\* The outputs of the results the blocks of this run returned.
OutputsOfRun(r) ==
    {r.results[k].output : k \in {j \in 1..Len(r.results) :
                                        r.results[j].output # Null}}

\* The block outputs an input hands to a block.
OutputsIn(input) ==
    IF input.t = "output" THEN {input}
    ELSE IF input.t = "object"
    THEN {input.fields[h] : h \in DOMAIN input.fields} \ {Undefined}
    ELSE {}

\* C21: run state is scoped to one run and reset at run() entry.  An
\* accepted run() starts with no results, zero totals, no node outputs and
\* the stop flag cleared, so a stop() issued while idle does not stop it;
\* and at every moment the totals are the sums over the results of this
\* run, the node outputs and every input handed to a block are outputs of
\* results of this run, and a "stopped by user" error implies that stop()
\* was called after the run's entry.
C21_RunStateScoped ==
    /\ [][ (calls' = calls + 1 /\ lastCall' = "accepted")
           => (/\ ~shouldStop'
               /\ run'.results = <<>>
               /\ run'.totalTokens = 0 /\ run'.totalApiCalls = 0
               /\ run'.nodeOutputs = <<>>
               /\ run'.error # StoppedByUser
               /\ pc' = "awaiting"
                    => (/\ run'.success
                        /\ invoked' = <<[nodeId |-> run'.executionOrder[1],
                                         input |-> Null]>>)) ]_vars
    /\ []( /\ run.totalTokens
                = SumSeq(MapSeq(run.results, LAMBDA res : res.metadata.tokens))
           /\ run.totalApiCalls
                = SumSeq(MapSeq(run.results,
                                  LAMBDA res : res.metadata.apiCalls))
           /\ \A n \in DOMAIN run.nodeOutputs :
                 run.nodeOutputs[n] \in OutputsOfRun(run)
           /\ \A k \in 1..Len(invoked) :
                 OutputsIn(invoked[k].input) \subseteq OutputsOfRun(run)
           /\ run.error = StoppedByUser => shouldStop
           /\ Settled => promise.trace = TraceOf(run) )

\* A second run was accepted after an earlier one and ran its three nodes
\* to the end, with the totals of its own three results.
C21_Witness ==
    /\ calls = 2 /\ lastCall = "accepted" /\ Settled
    /\ ~shouldStop
    /\ promise.trace.success
    /\ Len(promise.trace.results) = 3
    /\ promise.trace.totalTokens = 5
    /\ promise.trace.totalApiCalls = 1

---------------------------------------------------------------------------
(* Claims about the evaluator (checked under SpecEval).                    *)

\* Every test of the level whose own category is functionality passed.
OwnFunctionalityTestsPassed ==
    \A i \in 1..Len(evalInput.level.tests) :
        CategoryOfOwnTest(evalInput.level, evalResult.tests, i)
            = "functionality"
        => evalResult.tests[i].passed

\* score >= threshold as JavaScript compares them: false for NaN.
AtLeast(score, threshold) == ~score.nan /\ score.v >= threshold

\* C22 as stated: evaluate() passes a level if and only if every test of
\* the level whose category is functionality passed and the final score is
\* at least starThresholds.oneStar, for every list of tests, including
\* tests that share an id.
C22_AsStated ==
    evalResult.called =>
        (evalResult.passed
            <=> /\ OwnFunctionalityTestsPassed
                /\ AtLeast(evalResult.score,
                           evalInput.level.starThresholds.oneStar))

\* A whole number in the range 0..100.
IsScore(x) == ~x.nan /\ x.v \in 0..100

\* C23 as stated: for every trace and level, including a trace with zero
\* results, the observability score and the final score returned by
\* evaluate() are whole numbers in the range 0..100.
C23_AsStated ==
    evalResult.called =>
        /\ IsScore(evalResult.observabilityScore)
        /\ IsScore(evalResult.score)

\* success = true, no result carrying an error, every result with a
\* non-null input.
CleanTrace(trace) ==
    /\ trace.success
    /\ \A k \in 1..Len(trace.results) :
          /\ trace.results[k].metadata.error = NoError
          /\ trace.results[k].input # Null

\* C24 as stated: every trace with success = true, no result carrying an
\* error and every result having a non-null input gets an observability
\* score of 100.
C24_AsStated ==
    evalResult.called /\ CleanTrace(evalInput.trace)
        => evalResult.observabilityScore = Num(100)

\* totalDuration / results.length < 1000, which is false when the division
\* is by zero.
FastOnAverage(trace) ==
    /\ Len(trace.results) > 0
    /\ trace.totalDuration < 1000 * Len(trace.results)

\* C24, amended: every trace with success = true, no result carrying an
\* error, every result having a non-null input and an average duration per
\* result below 1000 ms gets an observability score of 100.
C24_FullObservability ==
    evalResult.called /\ CleanTrace(evalInput.trace)
                      /\ FastOnAverage(evalInput.trace)
        => evalResult.observabilityScore = Num(100)

\* evaluate() has scored a successful trace of two connected results that
\* took 1000 ms together.
C24_Witness ==
    /\ evalResult.called
    /\ CleanTrace(evalInput.trace)
    /\ Len(evalInput.trace.results) = 2
    /\ evalInput.trace.totalDuration = 1000
    /\ evalResult.observabilityScore = Num(100)

\* The smallest whole number of seconds that is at least ms milliseconds.
WholeSecondsUp(ms) == CHOOSE s \in 0..ms : 1000 * s >= ms /\ 1000 * (s - 1) < ms

\* C25: evaluate() returns exactly three budgets (tokens, apiCalls, time,
\* with time = trace duration rounded up to whole seconds), each with
\* exceeded = (current > limit), so a value equal to its limit is not
\* exceeded.
C25_ThreeBudgets ==
    evalResult.called =>
        LET b     == evalResult.budgets
            trace == evalInput.trace
            level == evalInput.level
        IN  /\ Len(b) = 3
            /\ b[1].type = "tokens" /\ b[2].type = "apiCalls"
            /\ b[3].type = "time"
            /\ b[1].limit = level.targetTokens
            /\ b[2].limit = level.targetApiCalls
            /\ b[3].limit = level.targetTime
            /\ b[1].current = trace.totalTokens
            /\ b[2].current = trace.totalApiCalls
            /\ b[3].current = WholeSecondsUp(trace.totalDuration)
            /\ \A k \in 1..3 : b[k].exceeded <=> b[k].current > b[k].limit
            /\ \A k \in 1..3 : b[k].current = b[k].limit => ~b[k].exceeded

\* evaluate() has scored a trace whose tokens equal the token target and
\* whose 1001 ms count as 2 seconds against a target of 1.
C25_Witness ==
    /\ evalResult.called
    /\ evalInput.trace.totalTokens = evalInput.level.targetTokens
    /\ ~evalResult.budgets[1].exceeded
    /\ evalInput.trace.totalDuration = 1001
    /\ evalResult.budgets[3].current = 2
    /\ evalResult.budgets[3].exceeded

\* The level with the limit of budget k lowered just below what the
\* evaluated trace used, so that budget k is exceeded and nothing else
\* differs.
WithBudgetExceeded(level, k) ==
    LET below == evalResult.budgets[k].current - 1
    IN  CASE k = 1 -> [level EXCEPT !.targetTokens = below]
          [] k = 2 -> [level EXCEPT !.targetApiCalls = below]
          [] k = 3 -> [level EXCEPT !.targetTime = below]

\* The evaluation of the same trace with budget k exceeded.
EvaluationExceeding(k) ==
    evaluate(evalInput.trace, WithBudgetExceeded(evalInput.level, k))

\* a < b as JavaScript compares them: false when either is NaN.
Lower(a, b) == ~a.nan /\ ~b.nan /\ a.v < b.v

\* C26 as stated: for two evaluations that differ only in one budget being
\* exceeded, the final score of the one with the exceeded budget is
\* strictly lower.
C26_AsStated ==
    evalResult.called =>
        \A k \in 1..3 :
            ~evalResult.budgets[k].exceeded
                => Lower(EvaluationExceeding(k).score, evalResult.score)

\* C26, amended: for two evaluations that differ only in one budget being
\* exceeded, where the one without it has the final score s, the one with
\* the exceeded budget has the final score max(0, s - 10) when s is below
\* 100, which is strictly lower unless s is 0, and a final score of 90 to
\* 100 when s is 100.
C26_ExceededBudgetCostsTen ==
    evalResult.called =>
        \A k \in 1..3 :
            ~evalResult.budgets[k].exceeded /\ ~evalResult.score.nan
                => LET other == EvaluationExceeding(k)
                   IN  /\ other.budgets[k].exceeded
                       /\ \A j \in 1..3 :
                             j # k => other.budgets[j] = evalResult.budgets[j]
                       /\ other.tests = evalResult.tests
                       /\ other.observabilityScore
                              = evalResult.observabilityScore
                       /\ evalResult.score.v < 100
                             => other.score
                                  = Num(Max(0, evalResult.score.v - 10))
                       /\ evalResult.score.v = 100
                             => /\ ~other.score.nan
                                /\ other.score.v \in 90..100

\* evaluate() has given a score of at least 10 to a trace within its token
\* budget, and gives 10 less once the token budget is exceeded.
C26_Witness ==
    /\ evalResult.called
    /\ ~evalResult.budgets[1].exceeded
    /\ AtLeast(evalResult.score, 10)
    /\ evalResult.score.v < 100
    /\ EvaluationExceeding(1).budgets[1].exceeded
    /\ EvaluationExceeding(1).score = Num(evalResult.score.v - 10)

\* C27: evaluate() returns one TestResult per test of the level, in the
\* level's order: an assertion returning true passes, returning false fails
\* with the generic message, returning a string fails with that string as
\* message, and an assertion that throws is converted to a failing result
\* without preventing the remaining tests from being scored.
C27_OneResultPerTest ==
    evalResult.called =>
        LET tests == evalInput.level.tests
            res   == evalResult.tests
        IN  /\ Len(res) = Len(tests)
            /\ \A i \in 1..Len(tests) :
                  /\ res[i].id = tests[i].id
                  /\ res[i].name = tests[i].name
                  /\ tests[i].assertion = "true"
                        => res[i].passed /\ res[i].message = "Test passed"
                  /\ tests[i].assertion = "false"
                        => ~res[i].passed /\ res[i].message = "Test failed"
                  /\ tests[i].assertion = "string"
                        => ~res[i].passed /\ res[i].message = tests[i].says
                  /\ tests[i].assertion = "throws" => ~res[i].passed

\* evaluate() has scored a level whose first assertion throws and whose
\* second assertion returns true.
C27_Witness ==
    /\ evalResult.called
    /\ Len(evalInput.level.tests) = 2
    /\ evalInput.level.tests[1].assertion = "throws"
    /\ evalInput.level.tests[2].assertion = "true"
    /\ ~evalResult.tests[1].passed
    /\ evalResult.tests[2].passed
---------------------------------------------------------------------------
(* A further claim about the graph functions (checked under SpecGraph).    *)

---------------------------------------------------------------------------
(* Claims about the runner and the evaluator together (checked under Spec). *)

\* C28 as stated: on the trace of every successful run the built-in
\* assertion executionSucceeded() passes, and usesBlockType(T) passes for
\* the type T of every node of the graph that was run; in particular for
\* the graph A(userInput) -> B(llmParse), usesBlockType("llmParse") passes.
C28_AsStated ==
    (Settled /\ lastCall = "accepted" /\ promise.trace.success)
    => /\ executionSucceeded(promise.trace) = "true"
       /\ \A i \in 1..Len(run.graph.nodes) :
             usesBlockType(run.graph.nodes[i].type, promise.trace) = "true"

\* The edges into nodeId.
EdgesInto(g, nodeId) == SelectSeq(g.edges, LAMBDA e : e.target = nodeId)

\* The output of the result a block returned for nodeId in this run, or
\* undefined when there is none.
RecordedOutput(r, nodeId) ==
    LET returned == SelectSeq(r.results,
                        LAMBDA res : res.nodeId = nodeId /\ res.output # Null)
    IN  IF returned = <<>> THEN Undefined ELSE Head(returned).output

\* C30: a node with exactly one inbound edge receives as input the output
\* recorded for that edge's source node, unchanged and not wrapped in an
\* object, whatever the edge's targetHandle.
C30_SingleInputPassedThrough ==
    \A k \in 1..Len(invoked) :
        LET into == EdgesInto(run.graph, invoked[k].nodeId)
        IN  Len(into) = 1
            => /\ invoked[k].input = RecordedOutput(run, into[1].source)
               /\ invoked[k].input.t # "object"

\* Node c, whose only inbound edge comes from a and names the handle "b",
\* has been invoked with the output of a.
C30_Witness ==
    /\ run.graph.edges = <<GraphEdge("a", "c", "b")>>
    /\ \E k \in 1..Len(invoked) :
          /\ invoked[k].nodeId = "c"
          /\ invoked[k].input = [t |-> "output", of |-> "a", call |-> calls]
          /\ invoked[k].input = RecordedOutput(run, "a")

\* metadata.tokens and metadata.apiCalls of a result, a missing value
\* counting as 0.
TokensOf(result) ==
    IF "tokens" \in DOMAIN result.metadata THEN result.metadata.tokens ELSE 0

ApiCallsOf(result) ==
    IF "apiCalls" \in DOMAIN result.metadata THEN result.metadata.apiCalls
    ELSE 0

\* C31: in every returned trace, totalTokens equals the sum of
\* metadata.tokens and totalApiCalls equals the sum of metadata.apiCalls
\* over the results in trace.results (a missing value counting as 0),
\* whether the run completed, was aborted or was stopped.
C31_TotalsAreSums ==
    promise.state = "resolved"
    => /\ promise.trace.totalTokens
            = SumSeq(MapSeq(promise.trace.results, TokensOf))
       /\ promise.trace.totalApiCalls
            = SumSeq(MapSeq(promise.trace.results, ApiCallsOf))

\* A run that was stopped by the user after two nodes returned a trace
\* whose totals are those of the two results.
C31_Witness ==
    /\ promise.state = "resolved"
    /\ promise.trace.error = StoppedByUser
    /\ Len(promise.trace.results) = 2
    /\ promise.trace.totalTokens = 3
    /\ promise.trace.totalApiCalls = 1

\* C32: in every trace returned by run(), success is true if and only if
\* error is undefined, and success = true implies that no result in
\* trace.results carries metadata.error and that every node of the graph
\* has a result.
C32_SuccessMeansClean ==
    promise.state = "resolved"
    => LET trace == promise.trace
       IN  /\ trace.success <=> trace.error = NoError
           /\ trace.success
                => /\ \A k \in 1..Len(trace.results) :
                         trace.results[k].metadata.error = NoError
                   /\ \A i \in 1..Len(run.graph.nodes) :
                         \E k \in 1..Len(trace.results) :
                            trace.results[k].nodeId = run.graph.nodes[i].id

\* A run of three nodes has returned a successful trace with three results,
\* after an earlier run on the same runner.
C32_Witness ==
    /\ promise.state = "resolved"
    /\ promise.trace.success
    /\ Len(run.graph.nodes) = 3
    /\ Len(promise.trace.results) = 3
    /\ calls = 2

\* The nodes of the run whose timer fired.
TimedOutNodes(results) ==
    {results[k].nodeId : k \in {j \in 1..Len(results) :
                                   results[j].metadata.error = TimedOut}}

\* The nodes of the run for which a result returned by a block is recorded.
ReturnedNodes(results) ==
    {results[k].nodeId : k \in {j \in 1..Len(results) :
                                   results[j].output # Null}}

\* C33: only one outcome of the block-versus-timer race is observed: if a
\* block completes after its timeout has fired, its late result is never
\* added to trace.results, never reported through onResult or onProgress,
\* never added to the totals and never used as input of a downstream node,
\* also when the run has continued (continueOnError = true) or a later run
\* has started on the same Runner.  That is: a late completion changes
\* neither the locals of a run, nor the callbacks made, nor a returned
\* trace, and no node has both a timeout error and a returned result.
C33_OneOutcomeObserved ==
    /\ [][(late' # late /\ late' \subseteq late)
            => /\ run' = run /\ events' = events
               /\ promise' = promise /\ invoked' = invoked]_vars
    /\ [](/\ TimedOutNodes(run.results) \cap ReturnedNodes(run.results) = {}
          /\ TimedOutNodes(run.results) \cap DOMAIN run.nodeOutputs = {}
          /\ \A k \in 1..Len(events) :
                ~(/\ events[k].cb = "onResult"
                  /\ events[k].result.output # Null
                  /\ events[k].result.nodeId \in TimedOutNodes(run.results)))

\* Node a timed out, the run continued with node b, and every timed-out
\* block has completed since.
C33_Witness ==
    /\ Settled
    /\ late = {}
    /\ run.continueOnError
    /\ "a" \in TimedOutNodes(run.results)
    /\ "b" \in ReturnedNodes(run.results)

\* C34: a run() call rejected because another run is in flight leaves the
\* in-flight run untouched: it does not clear a stop request already made
\* (shouldStop stays set), does not reset `running` to false, and does not
\* change the results or totals of the in-flight run.
C34_RejectedCallChangesNothing ==
    [][(isRunning /\ calls' = calls + 1)
         => /\ lastCall' = "rejected"
            /\ shouldStop' = shouldStop
            /\ isRunning' = isRunning
            /\ run' = run
            /\ pc' = pc /\ promise' = promise
            /\ invoked' = invoked /\ events' = events]_vars

\* A run() call has been rejected while a run with one recorded result and
\* a stop request was waiting for its second block.
C34_Witness ==
    /\ lastCall = "rejected"
    /\ isRunning
    /\ shouldStop
    /\ pc = "awaiting"
    /\ Len(run.results) = 1
    /\ promise = Pending

---------------------------------------------------------------------------
(* SpecStore: the actions of the graph store, called in any order.         *)

MaxSteps == 4

\* The ids of the edges of a graph.
StoreEdgeIds(g) == {g.edges[i].id : i \in 1..Len(g.edges)}

\* An id no node has.
MissingNode == "missing"

\* The graphs handed to setGraph and importGraph: an edge between two
\* nodes, and an edge to a node that does not exist.
StoreGraphs ==
    {[nodes |-> <<[id |-> "x", type |-> "userInput"],
                  [id |-> "y", type |-> "userOutput"]>>,
      edges |-> <<[id |-> "xy", source |-> "x", target |-> t,
                   targetHandle |-> NoHandle]>>] : t \in {"y", MissingNode}}

\* The actions the claims call edits.
Edits == {"addNode", "updateNode", "deleteNode", "addEdge", "updateEdge",
          "deleteEdge", "clearGraph"}

\* The journal after the store action `name` has been called: it records
\* the call and, while only edits have been made, the graph before it.
Recorded(name, id) ==
    [steps |-> journal.steps + 1,
     last |-> [name |-> name, id |-> id],
     prev |-> journal.last.name,
     before |-> IF name \in Edits /\ journal.onlyEdits
                THEN Append(journal.before, GraphOf(store))
                ELSE journal.before,
     onlyEdits |-> journal.onlyEdits /\ name \in Edits]

AddNode ==
    /\ journal.steps < MaxSteps
    /\ store' = addNode(store, [type |-> "llmParse"], uuid(uuids + 1))
    /\ uuids' = uuids + 1
    /\ journal' = Recorded("addNode", uuid(uuids + 1))
    /\ UNCHANGED <<graphVars, evalVars, runnerVars>>

UpdateNode ==
    /\ journal.steps < MaxSteps
    /\ \E id \in NodeIds(store) :
          /\ store' = updateNode(store, id, [type |-> "userOutput"])
          /\ journal' = Recorded("updateNode", id)
    /\ UNCHANGED <<uuids, graphVars, evalVars, runnerVars>>

DeleteNode ==
    /\ journal.steps < MaxSteps
    /\ \E id \in NodeIds(store) :
          /\ store' = deleteNode(store, id)
          /\ journal' = Recorded("deleteNode", id)
    /\ UNCHANGED <<uuids, graphVars, evalVars, runnerVars>>

AddEdge ==
    /\ journal.steps < MaxSteps
    /\ \E source \in NodeIds(store),
          target \in NodeIds(store) \cup {MissingNode} :
          store' = addEdge(store, [source |-> source, target |-> target,
                                   targetHandle |-> NoHandle],
                           uuid(uuids + 1))
    /\ uuids' = uuids + 1
    /\ journal' = Recorded("addEdge", uuid(uuids + 1))
    /\ UNCHANGED <<graphVars, evalVars, runnerVars>>

UpdateEdge ==
    /\ journal.steps < MaxSteps
    /\ \E id \in StoreEdgeIds(store) :
          /\ store' = updateEdge(store, id, [targetHandle |-> "in"])
          /\ journal' = Recorded("updateEdge", id)
    /\ UNCHANGED <<uuids, graphVars, evalVars, runnerVars>>

DeleteEdge ==
    /\ journal.steps < MaxSteps
    /\ \E id \in StoreEdgeIds(store) :
          /\ store' = deleteEdge(store, id)
          /\ journal' = Recorded("deleteEdge", id)
    /\ UNCHANGED <<uuids, graphVars, evalVars, runnerVars>>

Undo ==
    /\ journal.steps < MaxSteps
    /\ store' = undo(store)
    /\ journal' = Recorded("undo", "")
    /\ UNCHANGED <<uuids, graphVars, evalVars, runnerVars>>

Redo ==
    /\ journal.steps < MaxSteps
    /\ store' = redo(store)
    /\ journal' = Recorded("redo", "")
    /\ UNCHANGED <<uuids, graphVars, evalVars, runnerVars>>

PushToHistory ==
    /\ journal.steps < MaxSteps
    /\ store' = pushToHistory(store)
    /\ journal' = Recorded("pushToHistory", "")
    /\ UNCHANGED <<uuids, graphVars, evalVars, runnerVars>>

ValidateCurrentGraph ==
    /\ journal.steps < MaxSteps
    /\ store' = validateCurrentGraph(store)
    /\ journal' = Recorded("validateCurrentGraph", "")
    /\ UNCHANGED <<uuids, graphVars, evalVars, runnerVars>>

SetGraph ==
    /\ journal.steps < MaxSteps
    /\ \E g \in StoreGraphs : store' = setGraph(store, g)
    /\ journal' = Recorded("setGraph", "")
    /\ UNCHANGED <<uuids, graphVars, evalVars, runnerVars>>

ImportGraph ==
    /\ journal.steps < MaxSteps
    /\ \E g \in StoreGraphs : store' = importGraph(store, g)
    /\ journal' = Recorded("importGraph", "")
    /\ UNCHANGED <<uuids, graphVars, evalVars, runnerVars>>

ClearGraph ==
    /\ journal.steps < MaxSteps
    /\ store' = clearGraph(store)
    /\ journal' = Recorded("clearGraph", "")
    /\ UNCHANGED <<uuids, graphVars, evalVars, runnerVars>>

InitStore ==
    /\ StoreInit
    /\ graph = EmptyGraph
    /\ sorted = NotSorted
    /\ validation = NotValidated
    /\ revalidation = NotValidated
    /\ EvalInit
    /\ RunnerInit

NextStore ==
    \/ AddNode
    \/ UpdateNode
    \/ DeleteNode
    \/ AddEdge
    \/ UpdateEdge
    \/ DeleteEdge
    \/ Undo
    \/ Redo
    \/ PushToHistory
    \/ ValidateCurrentGraph
    \/ SetGraph
    \/ ImportGraph
    \/ ClearGraph

SpecStore == InitStore /\ [][NextStore]_vars

---------------------------------------------------------------------------
(* Claims about the graph store (checked under SpecStore).                 *)

RECURSIVE UndoTimes(_, _)
\* The store after k successive undo() calls.
UndoTimes(s, k) == IF k = 0 THEN s ELSE UndoTimes(undo(s), k - 1)

\* C35 as stated: after any sequence of edits (addNode, updateNode,
\* deleteNode, addEdge, updateEdge, deleteEdge, clearGraph), one undo()
\* restores nodes and edges to exactly what they were immediately before
\* the most recent edit, and k successive undo() calls restore the graph as
\* it was before the last k edits.
C35_AsStated ==
    journal.onlyEdits
    => \A k \in 1..Len(journal.before) :
          GraphOf(UndoTimes(store, k))
              = journal.before[Len(journal.before) - k + 1]

\* C36 as stated: undo() followed immediately by redo() is a round trip:
\* nodes and edges after the redo equal nodes and edges before the undo,
\* for every reachable state with canUndo = true.
C36_AsStated ==
    store.canUndo => GraphOf(redo(undo(store))) = GraphOf(store)

\* The step is a call of one of the edits.
EditStep ==
    /\ journal'.steps = journal.steps + 1
    /\ journal'.last.name \in Edits

\* C37: in every reachable state of the graph store, canUndo equals
\* (history.past is non-empty) and canRedo equals (history.future is
\* non-empty), and any edit made after an undo empties history.future so
\* that redo() becomes a no-op.
C37_FlagsFollowHistory ==
    /\ [](/\ store.canUndo <=> store.history.past # <<>>
          /\ store.canRedo <=> store.history.future # <<>>)
    /\ [][EditStep => /\ store'.history.future = <<>>
                      /\ redo(store') = store']_vars

\* A node was added after an edit had been undone: nothing is left to redo.
C37_Witness ==
    /\ journal.steps = 3
    /\ Len(journal.before) = 1
    /\ journal.prev = "undo"
    /\ journal.last.name = "addNode"
    /\ store.history.future = <<>>
    /\ ~store.canRedo
    /\ store.canUndo

\* Every edge of the graph has both its source and its target among the
\* nodes.
NoDanglingEdge(g) ==
    \A i \in 1..Len(g.edges) :
        g.edges[i].source \in NodeIds(g) /\ g.edges[i].target \in NodeIds(g)

\* The step is a call of the store action `name`.
StoreStep(name) ==
    /\ journal'.steps = journal.steps + 1
    /\ journal'.last.name = name

\* C38: deleteNode(id) removes the node together with every edge whose
\* source or target is id, so a graph with no dangling edge still has none
\* after any sequence of addNode, deleteNode and deleteEdge, and isValid /
\* validationErrors equal validateGraph of the current nodes and edges
\* after every store action including undo and redo.
C38_DeleteNodeAndValidity ==
    /\ [](/\ store.isValid = validateGraph(GraphOf(store)).valid
          /\ store.validationErrors = validateGraph(GraphOf(store)).errors)
    /\ [][StoreStep("deleteNode")
            => /\ journal'.last.id \notin NodeIds(store')
               /\ \A i \in 1..Len(store'.edges) :
                     /\ store'.edges[i].source # journal'.last.id
                     /\ store'.edges[i].target # journal'.last.id]_vars
    /\ [][(/\ \/ StoreStep("addNode") \/ StoreStep("deleteNode")
              \/ StoreStep("deleteEdge")
           /\ NoDanglingEdge(GraphOf(store)))
            => NoDanglingEdge(GraphOf(store'))]_vars

\* deleteNode has removed a node that had an edge, and the edge with it,
\* leaving a valid graph.
C38_Witness ==
    /\ journal.last.name = "deleteNode"
    /\ journal.onlyEdits
    /\ LET g == journal.before[Len(journal.before)]
       IN  /\ NoDanglingEdge(g)
           /\ \E i \in 1..Len(g.edges) : g.edges[i].source = journal.last.id
    /\ Len(store.nodes) = 1
    /\ store.edges = <<>>
    /\ store.isValid

====
